---- MODULE Spec2Model ----
(***************************************************************************)
(* Videoflix: the asynchronous HLS pipeline of apps/content_app.           *)
(*                                                                         *)
(* State: the committed Video rows and the open request transaction with   *)
(* its on-commit hooks, the media filesystem (source files, directories,   *)
(* playlists), the RQ job queue with its retry bookkeeping, and the        *)
(* position of every worker inside the task it executes.                   *)
(*                                                                         *)
(* A path is a sequence of tokens: the separators "/", "." and "_" and     *)
(* name atoms that contain none of them.  The empty sequence is the empty  *)
(* string.                                                                 *)
(***************************************************************************)
EXTENDS Integers, Sequences, FiniteSets, TLC

\* ------------------------------------------------------------------ bounds
\* Spec, the pipeline: videos uploaded, request transactions, rq workers
NumVideos == 1
MaxTx == 2
NumPipelineWorkers == 1
\* SpecTasks, the tasks called on given inputs: calls queued, rq workers
MaxCalls == 2
NumWorkers == 2

Videos == 1..NumVideos

\* ------------------------------------------------------- program constants
\* utils.py:18  DEFAULT_RETRY = Retry(max=3, interval=[10, 30, 60])
DEFAULT_RETRY_max == 3
DEFAULT_RETRY_interval == <<10, 30, 60>>
DEFAULT_RETRY == [max |-> DEFAULT_RETRY_max, interval |-> DEFAULT_RETRY_interval]

\* utils.py:20  ALLOWED_RESOLUTIONS, a dict: iteration is insertion order
ALLOWED_RESOLUTIONS_keys == <<"480p", "720p", "1080p">>
NumResolutions == Len(ALLOWED_RESOLUTIONS_keys)

\* settings.py:134  RQ_QUEUES['default']['DEFAULT_TIMEOUT']
DEFAULT_TIMEOUT == 900

EmptyPath == << >>

\* ------------------------------------------------------------ path helpers
RECURSIVE rfind(_, _, _)
\* str.rfind on a token sequence: the last index <= i holding t, 0 when none
rfind(p, t, i) ==
    IF i = 0 THEN 0
    ELSE IF p[i] = t THEN i
    ELSE rfind(p, t, i - 1)

RECURSIVE splitext_scan(_, _, _)
\* genericpath._splitext: the loop that skips the leading dots of the file name
splitext_scan(p, filenameIndex, dotIndex) ==
    IF filenameIndex >= dotIndex THEN <<p, EmptyPath>>
    ELSE IF p[filenameIndex] # "."
         THEN <<SubSeq(p, 1, dotIndex - 1), SubSeq(p, dotIndex, Len(p))>>
    ELSE splitext_scan(p, filenameIndex + 1, dotIndex)

\* os.path.splitext(p): <<root, ext>>
splitext(p) ==
    LET sepIndex == rfind(p, "/", Len(p))
        dotIndex == rfind(p, ".", Len(p))
    IN  IF dotIndex > sepIndex
        THEN splitext_scan(p, sepIndex + 1, dotIndex)
        ELSE <<p, EmptyPath>>

RECURSIVE path_parts(_, _, _)
\* the components of a path string between "/" separators, empty ones and "."
\* components dropped, as pathlib parses a path
path_parts(p, i, cur) ==
    LET keep == IF cur = EmptyPath \/ cur = <<".">> THEN << >> ELSE <<cur>>
    IN  IF i > Len(p) THEN keep
        ELSE IF p[i] = "/" THEN keep \o path_parts(p, i + 1, EmptyPath)
        ELSE path_parts(p, i + 1, Append(cur, p[i]))

\* the root pathlib keeps: "//" for exactly two leading slashes, else "/" or none
path_root(p) ==
    IF Len(p) >= 1 /\ p[1] = "/"
    THEN IF Len(p) >= 2 /\ p[2] = "/" /\ ~(Len(p) >= 3 /\ p[3] = "/")
         THEN <<"/", "/">>
         ELSE <<"/">>
    ELSE EmptyPath

RECURSIVE path_join(_)
path_join(parts) ==
    IF parts = << >> THEN EmptyPath
    ELSE IF Len(parts) = 1 THEN parts[1]
    ELSE parts[1] \o <<"/">> \o path_join(Tail(parts))

\* pathlib.Path(s): the normalised path; Path("") is "."
Path(s) ==
    LET r == path_root(s)
        body == path_join(path_parts(s, 1, EmptyPath))
    IN  IF r = EmptyPath /\ body = EmptyPath THEN <<".">> ELSE r \o body

\* Path.parent
path_parent(p) ==
    LET q == Path(p)
        r == path_root(q)
        parts == path_parts(q, 1, EmptyPath)
    IN  IF parts = << >> THEN q
        ELSE LET up == path_join(SubSeq(parts, 1, Len(parts) - 1))
             IN  IF r = EmptyPath /\ up = EmptyPath THEN <<".">> ELSE r \o up

RECURSIVE path_ancestors(_)
\* p and every directory above it, up to the root or "."
path_ancestors(p) ==
    LET q == Path(p)
    IN  IF path_parent(q) = q THEN {q}
        ELSE {q} \cup path_ancestors(path_parent(q))

\* utils.py video_base_path
video_base_path(video_file_path) == Path(splitext(video_file_path)[1])

\* mutant: the extension is not stripped
hls_output_dir_keeps_ext(video_file_path, resolution) ==
    Path(video_file_path \o <<"_", resolution>>)

\* utils.py hls_output_dir: Path(f"{base}_{resolution}")
hls_output_dir(video_file_path, resolution) ==
    Path(video_base_path(video_file_path) \o <<"_", resolution>>)

\* utils.py hls_playlist_path
hls_playlist_path(video_file_path, resolution) ==
    hls_output_dir(video_file_path, resolution) \o <<"/", "index", ".", "m3u8">>

\* ------------------------------------------------------------------- state
VARIABLES
    db,         \* committed Video rows
    tx,         \* the request's transaction: open flag, uncommitted view, hooks
    txlog,      \* per transaction id: "unused", "open", "committed", "rolledback"
    txhooks,    \* per transaction id: how many on-commit hooks it registered
    nextpk,     \* next primary key the Video table hands out
    createdIn,  \* per video: transaction id of the creating save, and whether
                \* it carried a video file
    deletedIn,  \* per video: transaction id of the delete (0: none so far)
    deleteSaw,  \* per video: what post_delete found on disk (video file, thumbnail)
    files,      \* regular files on disk
    dirs,       \* directories on disk
    playlists,  \* rendition directories that hold a complete index.m3u8
    jobs,       \* every job ever submitted to the queue, by job id
    queue,      \* the job ids waiting in the 'default' queue, FIFO
    workers,    \* per worker: the job it runs and its position in the task
    last,       \* the execution that ended in the step just taken: its job and record
    http,       \* the HLS request being served by a view, and its response
    helper,     \* a helper of utils.py called on an input, and what it returned
    now,        \* the clock of the queue, in seconds
    auth        \* user_auth_app: the users, the refresh tokens issued, the
                \* blacklist, the cookie prefix, the last request and response

Workers == DOMAIN workers

vars == <<db, tx, txlog, txhooks, nextpk, createdIn, deletedIn, deleteSaw,
          files, dirs, playlists, jobs, queue, workers, last, http, helper, now, auth>>

NotSeen == [attached |-> FALSE, video |-> FALSE, thumb |-> FALSE]
NoRow == [exists |-> FALSE, video_file |-> FALSE, thumbnail_url |-> FALSE]
IdleWorker == [job |-> 0, pc |-> "idle", idx |-> 0, exec |-> [result |-> "none"]]
NoLast == [job |-> 0, exec |-> [result |-> "none"]]
NoRequest == [pc |-> "idle"]
NoCall == [fn |-> "none"]
NoAuth == [prefix |-> ""]

\* models.py upload_video_path: "videos/<uuid4 hex>_<slug><ext>", one uuid per upload
upload_video_path(v) ==
    <<"videos", "/", IF v = 1 THEN "u1" ELSE IF v = 2 THEN "u2" ELSE "u3",
      "_", "movie", ".", "mp4">>

\* models.py thumbnail_url = ImageField(upload_to="thumbnails/")
upload_thumbnail_path(v) ==
    <<"thumbnails", "/", IF v = 1 THEN "t1" ELSE IF v = 2 THEN "t2" ELSE "t3",
      ".", "jpg">>

\* the rendition output directories of a source path
OutputDirs(path) ==
    {hls_output_dir(path, ALLOWED_RESOLUTIONS_keys[i]) : i \in 1..NumResolutions}

\* ------------------------------------------------------------ job queue
\* the record of one execution of a job: what that run did so far
\*   src        the source path was non-empty and on disk when the task was called
\*   made       renditions whose output directory this run has created or found
\*   wiped      a concurrent delete_hls_outputs removed the directory made last
\*   invoked    the encoder invocations, in order: rendition, return code (-9:
\*              killed by the timeout), whether the output directory existed,
\*              whether this run had made it, whether it was wiped since
\*   rmerr      an rmtree of this run hit an error
\*   overlap    a convert_video_to_hls on the same directories ran meanwhile
\*   dirsBefore the rendition directories present when the task was called
\*   tried      the folders this run called shutil.rmtree on
\*   absent     the folders this run found not to exist
\*   effects    the changes this run made to the filesystem
NewExec ==
    [src |-> FALSE, made |-> {}, wiped |-> FALSE, invoked |-> << >>,
     result |-> "running", rmerr |-> FALSE, overlap |-> FALSE,
     dirsBefore |-> {}, tried |-> {}, absent |-> {}, effects |-> {}]

\* utils.py _enqueue: queue.enqueue(task, *args, retry=DEFAULT_RETRY)
NewJob(call) ==
    [task |-> call.task, arg |-> call.arg, status |-> "queued",
     retries_left |-> DEFAULT_RETRY.max, retry_intervals |-> DEFAULT_RETRY.interval,
     interval |-> 0, failed_at |-> 0, due |-> 0, waited |-> 0,
     tx |-> call.tx, runs |-> 0]

RECURSIVE NewJobs(_)
NewJobs(calls) ==
    IF calls = << >> THEN << >> ELSE <<NewJob(Head(calls))>> \o NewJobs(Tail(calls))

\* the callbacks _enqueue run: each call becomes one job at the tail of the queue
Submit(calls) ==
    /\ jobs' = jobs \o NewJobs(calls)
    /\ queue' = queue \o [i \in 1..Len(calls) |-> Len(jobs) + i]

\* mutant: the job is submitted at once instead of from the commit hook
enqueue_now(t, calls) ==
    /\ Submit(calls)
    /\ tx' = t
    /\ UNCHANGED txhooks

\* utils.py enqueue_after_commit: transaction.on_commit(_enqueue).  Inside a
\* transaction the hook is kept until commit; with no transaction open Django
\* runs it at once.  t is the transaction as the request's write left it.
enqueue_after_commit(t, calls) ==
    IF t.open
    THEN /\ tx' = [t EXCEPT !.run_on_commit = @ \o calls]
         /\ txhooks' = [txhooks EXCEPT ![t.id] = @ + Len(calls)]
         /\ UNCHANGED <<jobs, queue>>
    ELSE /\ Submit(calls)
         /\ tx' = t
         /\ UNCHANGED txhooks

\* ------------------------------------------------------- signal handlers
Call(task, arg) == [task |-> task, arg |-> arg, tx |-> IF tx.open THEN tx.id ELSE 0]

\* mutant: the handler does not look at `created`
video_created_any_save(instance, created) ==
    IF ~instance.video_file THEN << >>
    ELSE <<Call("convert_video_to_hls", instance.path)>>

\* signals.py video_created_convert_to_hls: the enqueue_after_commit calls it makes
video_created_convert_to_hls(instance, created) ==
    IF ~created \/ ~instance.video_file THEN << >>
    ELSE <<Call("convert_video_to_hls", instance.path)>>

\* mutant: the output cleanup is not tied to the file being on disk
video_deleted_cleanup_always(instance) ==
    (IF instance.video_file
     THEN <<Call("delete_hls_outputs", instance.path), Call("safe_remove", instance.path)>>
     ELSE << >>)
    \o
    (IF instance.thumbnail_url /\ instance.thumb \in files
     THEN <<Call("safe_remove", instance.thumb)>>
     ELSE << >>)

\* mutant: the thumbnail is only looked at when the video file is on disk
video_deleted_cleanup_nested(instance) ==
    IF instance.video_file /\ instance.path \in files
    THEN <<Call("delete_hls_outputs", instance.path), Call("safe_remove", instance.path)>>
         \o (IF instance.thumbnail_url /\ instance.thumb \in files
             THEN <<Call("safe_remove", instance.thumb)>>
             ELSE << >>)
    ELSE << >>

\* signals.py video_deleted_cleanup_files: the enqueue_after_commit calls it makes
video_deleted_cleanup_files(instance) ==
    (IF instance.video_file /\ instance.path \in files
     THEN <<Call("delete_hls_outputs", instance.path), Call("safe_remove", instance.path)>>
     ELSE << >>)
    \o
    (IF instance.thumbnail_url /\ instance.thumb \in files
     THEN <<Call("safe_remove", instance.thumb)>>
     ELSE << >>)

\* the model instance a signal carries
Instance(v, row) ==
    [video_file |-> row.video_file, thumbnail_url |-> row.thumbnail_url,
     path |-> upload_video_path(v), thumb |-> upload_thumbnail_path(v)]

\* the rows the running request sees
View == IF tx.open THEN tx.view ELSE db

\* a write of the running request: into the transaction, or committed at once
TxWrite(v, row) ==
    IF tx.open THEN [tx EXCEPT !.view[v] = row]
    ELSE [tx EXCEPT !.view = [db EXCEPT ![v] = row]]
DbWrite(v, row) == IF tx.open THEN db ELSE [db EXCEPT ![v] = row]
TxNow == IF tx.open THEN tx.id ELSE 0

\* --------------------------------------------------------- web requests
\* settings.py ATOMIC_REQUESTS = True: every request runs inside one transaction
BeginRequest ==
    /\ ~tx.open
    /\ \E id \in 1..MaxTx :
        /\ txlog[id] = "unused"
        /\ \A k \in 1..(id - 1) : txlog[k] # "unused"
        /\ tx' = [open |-> TRUE, id |-> id, view |-> db, run_on_commit |-> << >>]
        /\ txlog' = [txlog EXCEPT ![id] = "open"]
    /\ UNCHANGED <<db, txhooks, nextpk, createdIn, deletedIn, deleteSaw,
                   files, dirs, playlists, jobs, queue, workers>>
    /\ last' = NoLast
    /\ UNCHANGED <<http, helper, now, auth>>

\* Video.objects.create(...): the uploads are written to storage during the
\* save, then post_save runs video_created_convert_to_hls with created=True
CreateVideo ==
    /\ tx.open
    /\ nextpk <= NumVideos
    /\ \E vf \in BOOLEAN, th \in BOOLEAN :
        LET v == nextpk
            row == [exists |-> TRUE, video_file |-> vf, thumbnail_url |-> th]
            up == (IF vf THEN {upload_video_path(v)} ELSE {})
                  \cup (IF th THEN {upload_thumbnail_path(v)} ELSE {})
        IN  /\ db' = DbWrite(v, row)
            /\ files' = files \cup up
            /\ dirs' = dirs \cup UNION {path_ancestors(path_parent(f)) : f \in up}
            /\ nextpk' = nextpk + 1
            /\ createdIn' = [createdIn EXCEPT ![v] = [tx |-> TxNow, file |-> vf]]
            /\ enqueue_after_commit(TxWrite(v, row),
                    video_created_convert_to_hls(Instance(v, row), TRUE))
    /\ UNCHANGED <<txlog, deletedIn, deleteSaw, playlists, workers>>
    /\ last' = NoLast
    /\ UNCHANGED <<http, helper, now, auth>>

\* a later save of an existing row (admin change form): it may attach or clear
\* the video file; post_save runs the handler with created=False
SaveVideo(v) ==
    /\ tx.open
    /\ View[v].exists
    /\ \E vf \in BOOLEAN, th \in {View[v].thumbnail_url} :
        LET row == [exists |-> TRUE, video_file |-> vf, thumbnail_url |-> th]
            up == (IF vf /\ ~View[v].video_file THEN {upload_video_path(v)} ELSE {})
                  \cup (IF th /\ ~View[v].thumbnail_url
                        THEN {upload_thumbnail_path(v)} ELSE {})
        IN  /\ db' = DbWrite(v, row)
            /\ files' = files \cup up
            /\ dirs' = dirs \cup UNION {path_ancestors(path_parent(f)) : f \in up}
            /\ enqueue_after_commit(TxWrite(v, row),
                    video_created_convert_to_hls(Instance(v, row), FALSE))
    /\ UNCHANGED <<txlog, nextpk, createdIn, deletedIn, deleteSaw, playlists, workers>>
    /\ last' = NoLast
    /\ UNCHANGED <<http, helper, now, auth>>

\* video.delete(): the row goes, then post_delete runs video_deleted_cleanup_files
DeleteVideo(v) ==
    /\ tx.open
    /\ View[v].exists
    /\ LET inst == Instance(v, View[v])
       IN  /\ db' = DbWrite(v, NoRow)
           /\ deletedIn' = [deletedIn EXCEPT ![v] = TxNow]
           /\ deleteSaw' = [deleteSaw EXCEPT ![v] =
                  [attached |-> inst.video_file,
                   video |-> inst.video_file /\ inst.path \in files,
                   thumb |-> inst.thumbnail_url /\ inst.thumb \in files]]
           /\ enqueue_after_commit(TxWrite(v, NoRow), video_deleted_cleanup_files(inst))
    /\ UNCHANGED <<txlog, nextpk, createdIn, files, dirs, playlists, workers>>
    /\ last' = NoLast
    /\ UNCHANGED <<http, helper, now, auth>>

\* the request ends without error: COMMIT, then Django runs the hooks in order
Commit ==
    /\ tx.open
    /\ db' = tx.view
    /\ txlog' = [txlog EXCEPT ![tx.id] = "committed"]
    /\ Submit(tx.run_on_commit)
    /\ tx' = [open |-> FALSE, id |-> 0, view |-> tx.view, run_on_commit |-> << >>]
    /\ UNCHANGED <<txhooks, nextpk, createdIn, deletedIn, deleteSaw,
                   files, dirs, playlists, workers>>
    /\ last' = NoLast
    /\ UNCHANGED <<http, helper, now, auth>>

\* the request raises: ROLLBACK, the hooks are dropped
Rollback ==
    /\ tx.open
    /\ txlog' = [txlog EXCEPT ![tx.id] = "rolledback"]
    /\ tx' = [open |-> FALSE, id |-> 0, view |-> db, run_on_commit |-> << >>]
    /\ deletedIn' = [v \in Videos |-> IF db[v].exists THEN 0 ELSE deletedIn[v]]
    /\ deleteSaw' = [v \in Videos |-> IF db[v].exists THEN NotSeen ELSE deleteSaw[v]]
    /\ UNCHANGED <<db, txhooks, nextpk, createdIn,
                   files, dirs, playlists, jobs, queue, workers>>
    /\ last' = NoLast
    /\ UNCHANGED <<http, helper, now, auth>>

\* a media file disappears from storage outside the application, between two
\* requests (the case the os.path.isfile / os.path.exists guards of the
\* handlers and tasks test for)
MediaFileLost(f) ==
    /\ ~tx.open
    /\ f \in files
    /\ files' = files \ {f}
    /\ UNCHANGED <<db, tx, txlog, txhooks, nextpk, createdIn, deletedIn, deleteSaw,
                   dirs, playlists, jobs, queue, workers>>
    /\ last' = NoLast
    /\ UNCHANGED <<http, helper, now, auth>>

\* ----------------------------------------------------------- job retry
\* mutant: every retry waits the first interval
get_retry_interval_first(job) == job.retry_intervals[1]

\* rq Retry as configured by DEFAULT_RETRY: Job.get_retry_interval
get_retry_interval(job) ==
    LET number_of_intervals == Len(job.retry_intervals)
        d == number_of_intervals - job.retries_left
        index == IF d > 0 THEN d ELSE 0
    IN  job.retry_intervals[index + 1]

\* mutant: a failed job is put back whatever its retry budget
handle_job_failure_unbounded(job) ==
    [job EXCEPT !.status = "scheduled", !.interval = get_retry_interval(job),
                !.failed_at = now, !.due = now + get_retry_interval(job)]

\* rq Worker.handle_job_failure with retry=DEFAULT_RETRY: while retries are
\* left the job is scheduled for now + its interval, else it is failed
handle_job_failure(job) ==
    IF job.retries_left > 0
    THEN [job EXCEPT !.status = "scheduled",
                     !.interval = get_retry_interval(job),
                     !.failed_at = now,
                     !.due = now + get_retry_interval(job),
                     !.retries_left = @ - 1]
    ELSE [job EXCEPT !.status = "failed"]

\* rq: a job whose function returned is finished; it is not put back
handle_job_success(job) == [job EXCEPT !.status = "finished"]

\* workers inside convert_video_to_hls whose output directories are ds
Converting(ds) ==
    {w \in Workers : /\ workers[w].pc \in {"mkdir", "encode"}
                     /\ OutputDirs(jobs[workers[w].job].arg) = ds}

\* workers inside delete_hls_outputs on the directories ds
Deleting(ds) ==
    {w \in Workers : /\ workers[w].pc = "rm"
                     /\ OutputDirs(jobs[workers[w].job].arg) = ds}

\* mutant: an execution that ends in a failure takes the worker down with it
Done_worker_lost(w, j, e) ==
    /\ workers' = [workers EXCEPT ![w] =
            IF e.result \in {"encfail", "timeout", "mkdirfail"}
            THEN [IdleWorker EXCEPT !.pc = "lost"] ELSE IdleWorker]
    /\ last' = [job |-> j, exec |-> e]

\* the execution of job j by worker w has ended with record e
Done(w, j, e) ==
    /\ workers' = [workers EXCEPT ![w] = IdleWorker]
    /\ last' = [job |-> j, exec |-> e]

\* os.path.exists of a non-empty path
OnDisk(path) == path # EmptyPath /\ path \in (files \cup dirs)

\* ---------------------------------------------------------------- tasks
\* mutant: only the empty path is turned away
convert_entry_unchecked(video_file_path) ==
    IF video_file_path = EmptyPath
    THEN <<FALSE, {}>>
    ELSE <<TRUE, path_ancestors(path_parent(video_file_path))>>

\* tasks.py convert_video_to_hls, lines 41-45: the guard and _ensure_parent_dirs.
\* <<runs, directories created>>
convert_entry(video_file_path) ==
    IF video_file_path = EmptyPath \/ video_file_path \notin (files \cup dirs)
    THEN <<FALSE, {}>>
    ELSE <<TRUE, path_ancestors(path_parent(video_file_path))>>

\* tasks.py delete_hls_outputs, lines 63-64: the guard on the empty path
delete_entry(video_file_path) == video_file_path # EmptyPath

\* a worker takes the job at the head of the queue and calls its function
\* (the workers are alike: the idle one with the lowest number takes it)
StartJob(w) ==
    /\ workers[w].pc = "idle"
    /\ \A x \in 1..(w - 1) : workers[x].pc # "idle"
    /\ queue # << >>
    /\ LET j == Head(queue)
           job == [jobs[j] EXCEPT !.status = "started", !.runs = @ + 1]
           ds == OutputDirs(job.arg)
       IN  /\ queue' = Tail(queue)
           /\ CASE job.task = "convert_video_to_hls" ->
                    LET en == convert_entry(job.arg)
                    IN  IF ~en[1]
                        THEN /\ jobs' = [jobs EXCEPT ![j] = handle_job_success(job)]
                             /\ Done(w, j, [NewExec EXCEPT !.src = OnDisk(job.arg),
                                                           !.result = "noop"])
                             /\ UNCHANGED dirs
                        ELSE /\ jobs' = [jobs EXCEPT ![j] = job]
                             /\ last' = NoLast
                             /\ dirs' = dirs \cup en[2]
                             /\ workers' = [x \in Workers |->
                                    IF x = w
                                    THEN [job |-> j, pc |-> "mkdir", idx |-> 1,
                                          exec |-> [NewExec EXCEPT
                                              !.src = OnDisk(job.arg),
                                              !.effects =
                                                {<<"mkdir", d>> : d \in en[2] \ dirs}]]
                                    ELSE IF x \in Deleting(ds)
                                    THEN [workers[x] EXCEPT !.exec.overlap = TRUE]
                                    ELSE workers[x]]
                [] job.task = "delete_hls_outputs" ->
                    IF ~delete_entry(job.arg)
                    THEN /\ jobs' = [jobs EXCEPT ![j] = handle_job_success(job)]
                         /\ Done(w, j, [NewExec EXCEPT !.result = "ok"])
                         /\ UNCHANGED dirs
                    ELSE /\ jobs' = [jobs EXCEPT ![j] = job]
                         /\ last' = NoLast
                         /\ workers' = [workers EXCEPT ![w] =
                                [job |-> j, pc |-> "rm", idx |-> 1,
                                 exec |-> [NewExec EXCEPT
                                     !.dirsBefore = ds \cap dirs,
                                     !.overlap = Converting(ds) # {}]]]
                         /\ UNCHANGED dirs
                [] OTHER ->
                    /\ jobs' = [jobs EXCEPT ![j] = job]
                    /\ last' = NoLast
                    /\ workers' = [workers EXCEPT ![w] =
                            [job |-> j, pc |-> "unlink", idx |-> 0, exec |-> NewExec]]
                    /\ UNCHANGED dirs
    /\ UNCHANGED <<db, tx, txlog, txhooks, nextpk, createdIn, deletedIn, deleteSaw,
                   files, playlists>>
    /\ UNCHANGED <<http, helper, now, auth>>

\* mutant: the output directory is not created
out_dir_not_made(ds, out_dir) == ds

\* tasks.py _convert_single_resolution, line 89: out_dir.mkdir(parents=True,
\* exist_ok=True) on the directories ds
out_dir_mkdir(ds, out_dir) == ds \cup path_ancestors(out_dir)

\* tasks.py _convert_single_resolution, lines 88-89
MakeOutDir(w) ==
    /\ workers[w].pc = "mkdir"
    /\ LET job == jobs[workers[w].job]
           label == ALLOWED_RESOLUTIONS_keys[workers[w].idx]
           out_dir == hls_output_dir(job.arg, label)
       IN  IF path_ancestors(out_dir) \cap files # {}
           THEN \* a regular file is in the way: FileExistsError / NotADirectoryError
                /\ jobs' = [jobs EXCEPT ![workers[w].job] = handle_job_failure(job)]
                /\ Done(w, workers[w].job, [workers[w].exec EXCEPT !.result = "mkdirfail"])
                /\ UNCHANGED dirs
           ELSE /\ dirs' = out_dir_mkdir(dirs, out_dir)
                /\ workers' = [workers EXCEPT
                       ![w].pc = "encode",
                       ![w].exec.made = @ \cup {label},
                       ![w].exec.wiped = FALSE,
                       ![w].exec.effects = @ \cup {<<"mkdir", d>> : d \in dirs' \ dirs}]
                /\ last' = NoLast
                /\ UNCHANGED jobs
    /\ UNCHANGED <<db, tx, txlog, txhooks, nextpk, createdIn, deletedIn, deleteSaw,
                   files, playlists, queue>>
    /\ UNCHANGED <<http, helper, now, auth>>

\* mutant: the return code is not checked, the loop goes on after a failure
AfterEncoderUnchecked(w, e, rc) ==
    LET j == workers[w].job
    IN  IF workers[w].idx < NumResolutions
        THEN /\ jobs' = jobs
             /\ last' = NoLast
             /\ workers' = [workers EXCEPT ![w] =
                    [job |-> j, pc |-> "mkdir", idx |-> workers[w].idx + 1, exec |-> e]]
        ELSE /\ jobs' = [jobs EXCEPT ![j] = handle_job_success(jobs[j])]
             /\ Done(w, j, [e EXCEPT !.result = "ok"])

\* tasks.py convert_video_to_hls, lines 47-48: what the loop does after the
\* encoder of a rendition ended with return code rc: go on with the next
\* rendition, return, or let the CalledProcessError of check=True leave the task
AfterEncoder(w, e, rc) ==
    LET j == workers[w].job
    IN  IF rc # 0
        THEN /\ jobs' = [jobs EXCEPT ![j] = handle_job_failure(jobs[j])]
             /\ Done(w, j, [e EXCEPT !.result = "encfail"])
        ELSE IF workers[w].idx < NumResolutions
        THEN /\ jobs' = jobs
             /\ last' = NoLast
             /\ workers' = [workers EXCEPT ![w] =
                    [job |-> j, pc |-> "mkdir", idx |-> workers[w].idx + 1, exec |-> e]]
        ELSE /\ jobs' = [jobs EXCEPT ![j] = handle_job_success(jobs[j])]
             /\ Done(w, j, [e EXCEPT !.result = "ok"])

\* the record of one encoder invocation
Invocation(e, label, rc, out_dir) ==
    [label |-> label, rc |-> rc, dir |-> out_dir \in dirs,
     made |-> label \in e.made, wiped |-> e.wiped]

\* tasks.py _convert_single_resolution, lines 94-98: subprocess.run(cmd,
\* check=True).  The encoder writes into out_dir: it can exit 0 only when the
\* directory is there, and then leaves the playlist in it.
RunEncoder(w) ==
    /\ workers[w].pc = "encode"
    /\ LET job == jobs[workers[w].job]
           e == workers[w].exec
           label == ALLOWED_RESOLUTIONS_keys[workers[w].idx]
           out_dir == hls_output_dir(job.arg, label)
       IN  \E rc \in {0, 1} :
            /\ rc = 0 => out_dir \in dirs
            /\ playlists' = IF rc = 0 THEN playlists \cup {out_dir} ELSE playlists
            /\ AfterEncoder(w,
                  [e EXCEPT !.invoked = Append(@, Invocation(e, label, rc, out_dir)),
                            !.effects = @ \cup (IF rc = 0 /\ out_dir \notin playlists
                                                THEN {<<"playlist", out_dir>>} ELSE {})],
                  rc)
    /\ UNCHANGED <<db, tx, txlog, txhooks, nextpk, createdIn, deletedIn, deleteSaw,
                   files, dirs, queue>>
    /\ UNCHANGED <<http, helper, now, auth>>

\* mutant: a timed-out execution is put back without using up a retry
JobTimeoutUncounted(w) ==
    /\ workers[w].pc = "encode"
    /\ LET j == workers[w].job
           e == workers[w].exec
           label == ALLOWED_RESOLUTIONS_keys[workers[w].idx]
           out_dir == hls_output_dir(jobs[j].arg, label)
       IN  /\ jobs' = [jobs EXCEPT ![j] = handle_job_failure_unbounded(jobs[j])]
           /\ Done(w, j,
                  [e EXCEPT !.invoked = Append(@, Invocation(e, label, -9, out_dir)),
                            !.result = "timeout"])
    /\ UNCHANGED <<db, tx, txlog, txhooks, nextpk, createdIn, deletedIn, deleteSaw,
                   files, dirs, playlists, queue>>
    /\ UNCHANGED <<http, helper, now, auth>>

\* settings.py RQ_QUEUES DEFAULT_TIMEOUT: the job runs past the timeout while
\* the encoder is at work; rq raises JobTimeoutException in the task, which
\* ends the execution as a failure
JobTimeout(w) ==
    /\ workers[w].pc = "encode"
    /\ LET j == workers[w].job
           e == workers[w].exec
           label == ALLOWED_RESOLUTIONS_keys[workers[w].idx]
           out_dir == hls_output_dir(jobs[j].arg, label)
       IN  /\ jobs' = [jobs EXCEPT ![j] = handle_job_failure(jobs[j])]
           /\ Done(w, j,
                  [e EXCEPT !.invoked = Append(@, Invocation(e, label, -9, out_dir)),
                            !.result = "timeout"])
    /\ UNCHANGED <<db, tx, txlog, txhooks, nextpk, createdIn, deletedIn, deleteSaw,
                   files, dirs, playlists, queue>>
    /\ UNCHANGED <<http, helper, now, auth>>

\* mutant: the loop looks at the first rendition's folder every time
delete_hls_first_folder(video_file_path, label) ==
    Path(video_base_path(video_file_path) \o <<"_", ALLOWED_RESOLUTIONS_keys[1]>>)

\* mutant: the loop removes the directory the source is in
delete_hls_parent_folder(video_file_path, label) == path_parent(video_file_path)

\* tasks.py delete_hls_outputs, lines 66-68: folder = Path(f"{base}_{label}")
delete_hls_folder(video_file_path, label) ==
    Path(video_base_path(video_file_path) \o <<"_", label>>)

\* shutil.rmtree(folder): the directories and the files it takes away, the
\* folder and everything below it
DirsUnder(folder) == {d \in dirs : folder \in path_ancestors(d)}
FilesUnder(folder) == {f \in files : folder \in path_ancestors(path_parent(f))}

\* mutant: rmtree without ignore_errors raises when the removal fails
rmtree_raises_on_error(outcome) == outcome # "removed"

\* tasks.py delete_hls_outputs, line 70: whether shutil.rmtree(folder,
\* ignore_errors=True) raises, given how the removal went
rmtree_raises(outcome) == FALSE

\* tasks.py delete_hls_outputs, lines 67-70: one turn of the loop.
\* shutil.rmtree(folder, ignore_errors=True) removes the directory or, on an
\* error, leaves it (with or without its playlist) and raises nothing.
RemoveOutDir(w) ==
    /\ workers[w].pc = "rm"
    /\ LET j == workers[w].job
           job == jobs[j]
           e == workers[w].exec
           folder == delete_hls_folder(job.arg, ALLOWED_RESOLUTIONS_keys[workers[w].idx])
           final == workers[w].idx = NumResolutions
           \* encoders about to be started on the folder lose their directory
           wipe(ws, gone) ==
               [x \in Workers |->
                   IF /\ gone
                      /\ x # w
                      /\ ws[x].pc = "encode"
                      /\ hls_output_dir(jobs[ws[x].job].arg,
                                        ALLOWED_RESOLUTIONS_keys[ws[x].idx]) = folder
                   THEN [ws[x] EXCEPT !.exec.wiped = TRUE]
                   ELSE ws[x]]
           step(e2, gone, raised) ==
               IF raised
               THEN /\ jobs' = [jobs EXCEPT ![j] = handle_job_failure(job)]
                    /\ workers' = wipe([workers EXCEPT ![w] = IdleWorker], gone)
                    /\ last' = [job |-> j, exec |-> [e2 EXCEPT !.result = "rmfail"]]
               ELSE IF final
               THEN /\ jobs' = [jobs EXCEPT ![j] = handle_job_success(job)]
                    /\ workers' = wipe([workers EXCEPT ![w] = IdleWorker], gone)
                    /\ last' = [job |-> j, exec |-> [e2 EXCEPT !.result = "ok"]]
               ELSE /\ jobs' = jobs
                    /\ last' = NoLast
                    /\ workers' = wipe([workers EXCEPT ![w].idx = @ + 1,
                                                       ![w].exec = e2], gone)
       IN  IF folder \in dirs
           THEN \E outcome \in {"removed", "error", "partial"} :
                \E lost \in (IF outcome = "removed" THEN {FilesUnder(folder)}
                              ELSE IF outcome = "partial" THEN SUBSET FilesUnder(folder)
                              ELSE {{}}) :
                /\ outcome = "partial" => folder \in playlists
                /\ dirs' = IF outcome = "removed" THEN dirs \ DirsUnder(folder) ELSE dirs
                /\ playlists' = IF outcome = "removed" THEN playlists \ DirsUnder(folder)
                                ELSE IF outcome = "partial" THEN playlists \ {folder}
                                ELSE playlists
                /\ files' = files \ lost
                /\ step([e EXCEPT
                        !.rmerr = @ \/ outcome # "removed",
                        !.tried = @ \cup {folder},
                        !.effects = @ \cup
                            (IF outcome = "removed"
                             THEN {<<"rmtree", d>> : d \in DirsUnder(folder)} ELSE {})
                            \cup (IF outcome = "partial"
                                  THEN {<<"rmplaylist", folder>>} ELSE {})
                            \cup {<<"unlink", f>> : f \in lost}],
                        outcome = "removed", rmtree_raises(outcome))
           ELSE IF folder \in files
           THEN \* a regular file: exists() is true, rmtree fails on it and leaves it
                /\ UNCHANGED <<dirs, playlists, files>>
                /\ step([e EXCEPT !.rmerr = TRUE, !.tried = @ \cup {folder}],
                        FALSE, rmtree_raises("error"))
           ELSE /\ UNCHANGED <<dirs, playlists, files>>
                /\ step([e EXCEPT !.absent = @ \cup {folder}], FALSE, FALSE)
    /\ UNCHANGED <<db, tx, txlog, txhooks, nextpk, createdIn, deletedIn, deleteSaw,
                   queue>>
    /\ UNCHANGED <<http, helper, now, auth>>

\* signals.py safe_remove: Path(path).unlink(missing_ok=True), every exception
\* swallowed (the file then stays)
SafeRemove(w) ==
    /\ workers[w].pc = "unlink"
    /\ LET j == workers[w].job
           job == jobs[j]
       IN  \E unlinked \in BOOLEAN :
            /\ files' = IF unlinked THEN files \ {job.arg} ELSE files
            /\ jobs' = [jobs EXCEPT ![j] = handle_job_success(job)]
            /\ Done(w, j,
                   [workers[w].exec EXCEPT
                       !.result = "ok",
                       !.effects = IF unlinked /\ job.arg \in files
                                   THEN {<<"unlink", job.arg>>} ELSE {}])
    /\ UNCHANGED <<db, tx, txlog, txhooks, nextpk, createdIn, deletedIn, deleteSaw,
                   dirs, playlists, queue>>
    /\ UNCHANGED <<http, helper, now, auth>>

\* mutant: the scheduler also puts back a job that is still being executed
Requeue_running(j) ==
    /\ jobs[j].status \in {"scheduled", "started"}
    /\ jobs' = [jobs EXCEPT ![j].status = "queued"]
    /\ queue' = Append(queue, j)
    /\ UNCHANGED <<db, tx, txlog, txhooks, nextpk, createdIn, deletedIn, deleteSaw,
                   files, dirs, playlists, workers>>
    /\ last' = NoLast
    /\ UNCHANGED <<http, helper, now, auth>>

\* mutant: a job that has ended is put back as well
Requeue_ended(j) ==
    /\ jobs[j].status \in {"scheduled", "finished", "failed"}
    /\ jobs' = [jobs EXCEPT ![j].status = "queued"]
    /\ queue' = Append(queue, j)
    /\ UNCHANGED <<db, tx, txlog, txhooks, nextpk, createdIn, deletedIn, deleteSaw,
                   files, dirs, playlists, workers>>
    /\ last' = NoLast
    /\ UNCHANGED <<http, helper, now, auth>>

\* rq scheduler: the interval of a scheduled retry has elapsed, the job goes
\* back to the tail of its queue (the clock is left out here; SpecRetry has it)
Requeue(j) ==
    /\ jobs[j].status = "scheduled"
    /\ jobs' = [jobs EXCEPT ![j].status = "queued"]
    /\ queue' = Append(queue, j)
    /\ UNCHANGED <<db, tx, txlog, txhooks, nextpk, createdIn, deletedIn, deleteSaw,
                   files, dirs, playlists, workers>>
    /\ last' = NoLast
    /\ UNCHANGED <<http, helper, now, auth>>

\* ----------------------------------------------------------- the system
WebInit ==
    /\ db = [v \in Videos |-> NoRow]
    /\ tx = [open |-> FALSE, id |-> 0, view |-> [v \in Videos |-> NoRow],
             run_on_commit |-> << >>]
    /\ txlog = [i \in 1..MaxTx |-> "unused"]
    /\ txhooks = [i \in 1..MaxTx |-> 0]
    /\ nextpk = 1
    /\ createdIn = [v \in Videos |-> [tx |-> 0, file |-> FALSE]]
    /\ deletedIn = [v \in Videos |-> 0]
    /\ deleteSaw = [v \in Videos |-> NotSeen]

Init ==
    /\ WebInit
    /\ files = {}
    /\ dirs = {}
    /\ playlists = {}
    /\ jobs = << >>
    /\ queue = << >>
    /\ workers = [w \in 1..NumPipelineWorkers |-> IdleWorker]
    /\ last = NoLast
    /\ http = NoRequest
    /\ helper = NoCall
    /\ now = 0
    /\ auth = NoAuth

Next ==
    \/ BeginRequest
    \/ CreateVideo
    \/ \E v \in Videos : SaveVideo(v)
    \/ \E v \in Videos : DeleteVideo(v)
    \/ Commit
    \/ Rollback
    \/ \E f \in files : MediaFileLost(f)
    \/ \E w \in Workers : StartJob(w)
    \/ \E w \in Workers : MakeOutDir(w)
    \/ \E w \in Workers : RunEncoder(w)
    \/ \E w \in Workers : JobTimeout(w)
    \/ \E w \in Workers : RemoveOutDir(w)
    \/ \E w \in Workers : SafeRemove(w)
    \/ \E j \in DOMAIN jobs : Requeue(j)

Spec == Init /\ [][Next]_vars

\* ------------------------------------------------- the tasks on their own
\* A source path as the upload naming makes it, and the empty string
TaskPath == upload_video_path(1)
TaskArgs == {EmptyPath, TaskPath}
Tasks == {"convert_video_to_hls", "delete_hls_outputs", "safe_remove"}
DirectCalls ==
    {[task |-> t, arg |-> a, tx |-> 0] : t \in Tasks \ {"safe_remove"}, a \in TaskArgs}
    \cup {[task |-> "safe_remove", arg |-> TaskPath, tx |-> 0]}
CallLists == UNION {[1..n -> DirectCalls] : n \in 1..MaxCalls}

\* the tasks submitted to the queue for a source file that is on disk or
\* not, with the rendition directories of an earlier complete run of
\* convert_video_to_hls present or not
TaskInit ==
    /\ WebInit
    /\ files \in {{}, {TaskPath}}
    /\ \E left \in {{}, OutputDirs(TaskPath)} :
        /\ dirs = (IF files = {} /\ left = {} THEN {}
                   ELSE path_ancestors(path_parent(TaskPath))) \cup left
        /\ playlists = left
    /\ \E calls \in CallLists :
        /\ jobs = NewJobs(calls)
        /\ queue = [i \in 1..Len(calls) |-> i]
    /\ workers = [w \in 1..NumWorkers |-> IdleWorker]
    /\ last = NoLast
    /\ http = NoRequest
    /\ helper = NoCall
    /\ now = 0
    /\ auth = NoAuth

NextTasks ==
    \/ \E w \in Workers : StartJob(w)
    \/ \E w \in Workers : MakeOutDir(w)
    \/ \E w \in Workers : RunEncoder(w)
    \/ \E w \in Workers : JobTimeout(w)
    \/ \E w \in Workers : RemoveOutDir(w)
    \/ \E w \in Workers : SafeRemove(w)
    \/ \E j \in DOMAIN jobs : Requeue(j)

SpecTasks == TaskInit /\ [][NextTasks]_vars

\* ------------------------------------------- the tasks on pairs of paths
\* Source paths: two as the upload naming makes them, one with the stem of
\* the first and another extension, one without extension that is spelled
\* like the first one's 480p folder, and one inside that folder
GeneralPaths ==
    {upload_video_path(1),
     upload_video_path(2),
     <<"videos", "/", "u1", "_", "movie", ".", "mkv">>,
     <<"videos", "/", "u1", "_", "movie", "_", "480p">>,
     <<"videos", "/", "u1", "_", "movie", "_", "480p", "/", "clip", ".", "mp4">>}

\* one task called on p while another source q and a thumbnail are on disk,
\* with the rendition directories of q, or of both, left by earlier runs
PathInit ==
    /\ WebInit
    /\ \E p \in GeneralPaths, q \in GeneralPaths :
        /\ p # q
        /\ p \notin path_ancestors(path_parent(q))
        /\ q \notin path_ancestors(path_parent(p))
        /\ files = {p, q, upload_thumbnail_path(1)}
        /\ \E left \in {{}, OutputDirs(q), OutputDirs(p) \cup OutputDirs(q)} :
            /\ playlists = left \ files
            /\ dirs = UNION {path_ancestors(path_parent(f)) : f \in files}
                      \cup UNION {path_ancestors(d) : d \in left \ files}
        /\ \E t \in {"convert_video_to_hls", "delete_hls_outputs"} :
            jobs = <<NewJob([task |-> t, arg |-> p, tx |-> 0])>>
    /\ queue = <<1>>
    /\ workers = [w \in 1..NumPipelineWorkers |-> IdleWorker]
    /\ last = NoLast
    /\ http = NoRequest
    /\ helper = NoCall
    /\ now = 0
    /\ auth = NoAuth

NextPaths ==
    \/ \E w \in Workers : StartJob(w)
    \/ \E w \in Workers : MakeOutDir(w)
    \/ \E w \in Workers : RunEncoder(w)
    \/ \E w \in Workers : JobTimeout(w)
    \/ \E w \in Workers : RemoveOutDir(w)
    \/ \E j \in DOMAIN jobs : Requeue(j)

SpecPaths == PathInit /\ [][NextPaths]_vars

\* ------------------------------------- a deletion racing the transcode
\* the request that created video 1 with a video file has committed: the row
\* is stored, the upload is on disk, the transcode job is on the queue and
\* two workers serve it
RaceInit ==
    /\ db = [v \in Videos |->
                [exists |-> TRUE, video_file |-> TRUE, thumbnail_url |-> FALSE]]
    /\ tx = [open |-> FALSE, id |-> 0, view |-> db, run_on_commit |-> << >>]
    /\ txlog = [i \in 1..MaxTx |-> IF i = 1 THEN "committed" ELSE "unused"]
    /\ txhooks = [i \in 1..MaxTx |-> IF i = 1 THEN 1 ELSE 0]
    /\ nextpk = NumVideos + 1
    /\ createdIn = [v \in Videos |-> [tx |-> 1, file |-> TRUE]]
    /\ deletedIn = [v \in Videos |-> 0]
    /\ deleteSaw = [v \in Videos |-> NotSeen]
    /\ files = {upload_video_path(v) : v \in Videos}
    /\ dirs = UNION {path_ancestors(path_parent(f)) : f \in files}
    /\ playlists = {}
    /\ jobs = <<NewJob([task |-> "convert_video_to_hls",
                        arg |-> upload_video_path(1), tx |-> 1])>>
    /\ queue = <<1>>
    /\ workers = [w \in 1..NumWorkers |-> IdleWorker]
    /\ last = NoLast
    /\ http = NoRequest
    /\ helper = NoCall
    /\ now = 0
    /\ auth = NoAuth

NextRace ==
    \/ BeginRequest
    \/ \E v \in Videos : DeleteVideo(v)
    \/ Commit
    \/ Rollback
    \/ \E w \in Workers : StartJob(w)
    \/ \E w \in Workers : MakeOutDir(w)
    \/ \E w \in Workers : RunEncoder(w)
    \/ \E w \in Workers : JobTimeout(w)
    \/ \E w \in Workers : RemoveOutDir(w)
    \/ \E w \in Workers : SafeRemove(w)
    \/ \E j \in DOMAIN jobs : Requeue(j)

SpecRace == RaceInit /\ [][NextRace]_vars

\* bound: the jobs of one video (transcode, output cleanup, source removal)
MaxJobs == 3

\* rq: a worker that has a job goes on with it, an idle worker takes the job
\* at the head of the queue, every encoder exits or is cut off by the
\* timeout, and the scheduler puts a retry back when it is due
JobStep ==
    \/ \E w \in Workers : StartJob(w)
    \/ \E w \in Workers : MakeOutDir(w)
    \/ \E w \in Workers : RunEncoder(w)
    \/ \E w \in Workers : JobTimeout(w)
    \/ \E w \in Workers : RemoveOutDir(w)
    \/ \E w \in Workers : SafeRemove(w)
    \/ \E j \in DOMAIN jobs : Requeue(j)

\* JobStep can be taken: a worker is at a position inside a task (each has a
\* step), a job waits on the queue and a worker is idle, or a retry is
\* scheduled
JobStepEnabled ==
    \/ \E w \in Workers : workers[w].pc \in {"mkdir", "encode", "rm", "unlink"}
    \/ queue # << >> /\ \E w \in Workers : workers[w].pc = "idle"
    \/ \E j \in DOMAIN jobs : jobs[j].status = "scheduled"

\* the race under that scheduling: the scheduler puts every scheduled retry
\* back, and the workers and the scheduler together never stop while one of
\* them has a step to take.  The second condition is WF_vars(JobStep) with
\* ENABLED <<JobStep>>_vars written out as JobStepEnabled.
SpecRaceFair ==
    /\ SpecRace
    /\ WF_vars(\E j \in DOMAIN jobs : Requeue(j))
    /\ ([]<>(~JobStepEnabled) \/ []<><<JobStep>>_vars)

\* ------------------------------------------------- the retries on a clock
\* bound: how far the clock runs, in seconds
MaxClock == 110
ClockStep == 10

\* the time passes
Tick ==
    /\ now < MaxClock
    /\ now' = now + ClockStep
    /\ last' = NoLast
    /\ UNCHANGED <<db, tx, txlog, txhooks, nextpk, createdIn, deletedIn, deleteSaw,
                   files, dirs, playlists, jobs, queue, workers, http, helper, auth>>

\* mutant: the scheduler does not look at the time a job is due
RequeueAtOnce(j) ==
    /\ jobs[j].status = "scheduled"
    /\ jobs' = [jobs EXCEPT ![j].status = "queued", ![j].waited = now - jobs[j].failed_at]
    /\ queue' = Append(queue, j)
    /\ last' = NoLast
    /\ UNCHANGED <<db, tx, txlog, txhooks, nextpk, createdIn, deletedIn, deleteSaw,
                   files, dirs, playlists, workers, http, helper, now, auth>>

\* rq scheduler (enqueue_scheduled_jobs): a scheduled job whose time has come
\* goes back to the tail of its queue
RequeueDue(j) ==
    /\ jobs[j].status = "scheduled"
    /\ now >= jobs[j].due
    /\ jobs' = [jobs EXCEPT ![j].status = "queued", ![j].waited = now - jobs[j].failed_at]
    /\ queue' = Append(queue, j)
    /\ last' = NoLast
    /\ UNCHANGED <<db, tx, txlog, txhooks, nextpk, createdIn, deletedIn, deleteSaw,
                   files, dirs, playlists, workers, http, helper, now, auth>>

\* one transcode job for a source that is on disk, the clock at 0
RetryInit ==
    /\ WebInit
    /\ files = {TaskPath}
    /\ dirs = path_ancestors(path_parent(TaskPath))
    /\ playlists = {}
    /\ jobs = <<NewJob([task |-> "convert_video_to_hls", arg |-> TaskPath, tx |-> 0])>>
    /\ queue = <<1>>
    /\ workers = [w \in 1..NumWorkers |-> IdleWorker]
    /\ last = NoLast
    /\ http = NoRequest
    /\ helper = NoCall
    /\ now = 0
    /\ auth = NoAuth

NextRetry ==
    \/ Tick
    \/ \E w \in Workers : StartJob(w)
    \/ \E w \in Workers : MakeOutDir(w)
    \/ \E w \in Workers : RunEncoder(w)
    \/ \E w \in Workers : JobTimeout(w)
    \/ \E j \in DOMAIN jobs : RequeueDue(j)

SpecRetry == RetryInit /\ [][NextRetry]_vars

\* ------------------------------------------------------------ the HLS views
RECURSIVE resolve_parts(_, _)
\* what the filesystem makes of the components of a path: ".." steps up
resolve_parts(parts, acc) ==
    IF parts = << >> THEN acc
    ELSE IF Head(parts) = <<"..">>
         THEN resolve_parts(Tail(parts),
                            IF acc = << >> THEN acc ELSE SubSeq(acc, 1, Len(acc) - 1))
    ELSE resolve_parts(Tail(parts), Append(acc, Head(parts)))

\* the file or directory a path names on disk
resolve(p) ==
    LET body == path_join(resolve_parts(path_parts(p, 1, EmptyPath), << >>))
    IN  IF path_root(p) = EmptyPath /\ body = EmptyPath THEN <<".">>
        ELSE path_root(p) \o body

\* Path.exists()
path_exists(p) == resolve(p) \in (files \cup dirs)

\* pathlib's dir / name: an absolute name replaces dir
path_div(dir, name) ==
    IF name # EmptyPath /\ name[1] = "/" THEN Path(name)
    ELSE Path(dir \o <<"/">> \o name)

\* the characters \d matches in a str pattern: the decimal digits of Unicode,
\* here two ASCII digits and ARABIC-INDIC DIGIT THREE
Digits == {"0", "7", "u0663"}

\* utils.py SEGMENT_RE.match(segment) for ^segment_\d{3}\.ts$ : "$" matches at
\* the end of the string and also before a newline that ends the string
SEGMENT_RE_match(segment) ==
    /\ Len(segment) \in {6, 7}
    /\ segment[1] = "segment_"
    /\ \A i \in 2..4 : segment[i] \in Digits
    /\ segment[5] = "."
    /\ segment[6] = "ts"
    /\ Len(segment) = 7 => segment[7] = "\n"

\* mutant: only the first two labels are allowed
validate_resolution_two(resolution) ==
    \E i \in 1..2 : ALLOWED_RESOLUTIONS_keys[i] = resolution

\* utils.py validate_resolution: TRUE when it returns, FALSE when it raises ValueError
validate_resolution(resolution) ==
    \E i \in 1..NumResolutions : ALLOWED_RESOLUTIONS_keys[i] = resolution

\* utils.py validate_segment_name: TRUE when it returns, FALSE when it raises ValueError
validate_segment_name(segment) == SEGMENT_RE_match(segment)

\* the responses of the views: rest_framework's NotFound(detail) is rendered
\* as 404 with the detail as body; an exception that is no APIException
\* leaves the view and Django answers 500
NotFound(detail) == [status |-> 404, body |-> detail, content_type |-> "application/json"]
ServerError(exc) == [status |-> 500, body |-> exc, content_type |-> "text/html"]
FileResponse(path, content_type) ==
    [status |-> 200, body |-> resolve(path), content_type |-> content_type]

\* the inputs the views are called on
MovieIds == 1..(NumVideos + 1)
Seg000 == <<"segment_", "0", "0", "0", ".", "ts">>
RequestedResolutions == {"480p", "720p", "1080p", "999p", "480P"}
RequestedSegments ==
    { Seg000,
      <<"segment_", "0", "0", "7", ".", "ts">>,
      Seg000 \o <<"\n">>,
      <<"segment_", "0", "0", ".", "ts">>,
      <<"index", ".", "m3u8">>,
      <<"..", "/", "u1", "_", "movie", ".", "mp4">>,
      <<"/", "videos", "/", "u1", "_", "movie", ".", "mp4">> }

\* views.py _get_video: the row, or NoRow for Video.DoesNotExist
get_video(movie_id) == IF movie_id \in Videos THEN db[movie_id] ELSE NoRow

\* a view has answered
Respond(kind, movie_id, resolution, segment, response) ==
    http' = [pc |-> "done", view |-> kind, movie_id |-> movie_id,
             resolution |-> resolution, segment |-> segment,
             target |-> EmptyPath, response |-> response]

\* a view has found its file and is about to open it
FoundFile(kind, movie_id, resolution, segment, target) ==
    http' = [pc |-> "open", view |-> kind, movie_id |-> movie_id,
             resolution |-> resolution, segment |-> segment,
             target |-> target, response |-> [status |-> 0]]

\* the outcome of a view's lookup: a response, or the file it goes on to open
Answer(response) == [found |-> FALSE, response |-> response]
Found(target) == [found |-> TRUE, target |-> target]

\* views.py HLSPlaylistView.get, lines 78-83: video.video_file.path raises
\* ValueError when the row has no file
playlist_lookup(movie_id, resolution) ==
    LET video == get_video(movie_id)
        playlist == hls_playlist_path(upload_video_path(movie_id), resolution)
    IN  IF ~video.exists THEN Answer(NotFound("Video not found."))
        ELSE IF ~validate_resolution(resolution)
             THEN Answer(NotFound("Video or Manifest not found."))
        ELSE IF ~video.video_file
             THEN Answer(ServerError("ValueError"))
        ELSE IF ~path_exists(playlist)
             THEN Answer(NotFound("HLS Playlist not found."))
        ELSE Found(playlist)

\* views.py HLSPlaylistView.get up to the exists() test
HLSPlaylistView_get(movie_id, resolution) ==
    /\ http.pc \in {"idle", "done"}
    /\ LET got == playlist_lookup(movie_id, resolution)
       IN  IF got.found
           THEN FoundFile("playlist", movie_id, resolution, EmptyPath, got.target)
           ELSE Respond("playlist", movie_id, resolution, EmptyPath, got.response)
    /\ UNCHANGED <<db, tx, txlog, txhooks, nextpk, createdIn, deletedIn, deleteSaw,
                   files, dirs, playlists, jobs, queue, workers, last, helper, now, auth>>

\* views.py _ensure_valid_segment: TRUE when it returns, FALSE when it raises NotFound
ensure_valid_segment(segment) == validate_segment_name(segment)

\* views.py HLSSegmentView.get, lines 115-121
segment_lookup(movie_id, resolution, segment) ==
    LET video == get_video(movie_id)
        seg == path_div(hls_output_dir(upload_video_path(movie_id), resolution),
                        segment)
    IN  IF ~video.exists THEN Answer(NotFound("Video not found."))
        ELSE IF ~validate_resolution(resolution)
             THEN Answer(NotFound("Video or Manifest not found."))
        ELSE IF ~ensure_valid_segment(segment)
             THEN Answer(NotFound("Video or Segment not found."))
        ELSE IF ~video.video_file
             THEN Answer(ServerError("ValueError"))
        ELSE IF ~path_exists(seg)
             THEN Answer(NotFound("Segment not found."))
        ELSE Found(seg)

\* views.py HLSSegmentView.get up to the exists() test
HLSSegmentView_get(movie_id, resolution, segment) ==
    /\ http.pc \in {"idle", "done"}
    /\ LET got == segment_lookup(movie_id, resolution, segment)
       IN  IF got.found
           THEN FoundFile("segment", movie_id, resolution, segment, got.target)
           ELSE Respond("segment", movie_id, resolution, segment, got.response)
    /\ UNCHANGED <<db, tx, txlog, txhooks, nextpk, createdIn, deletedIn, deleteSaw,
                   files, dirs, playlists, jobs, queue, workers, last, helper, now, auth>>

\* views.py lines 85-89 and 123-127: FileResponse(path.open("rb"), ...).  The
\* open raises when the path went away since exists(), or names a directory.
OpenFile ==
    /\ http.pc = "open"
    /\ LET f == resolve(http.target)
           r == IF f \in files
                THEN FileResponse(http.target,
                                  IF http.view = "playlist"
                                  THEN "application/vnd.apple.mpegurl"
                                  ELSE "video/MP2T")
                ELSE IF f \in dirs THEN ServerError("IsADirectoryError")
                ELSE ServerError("FileNotFoundError")
       IN  http' = [http EXCEPT !.pc = "done", !.response = r]
    /\ UNCHANGED <<db, tx, txlog, txhooks, nextpk, createdIn, deletedIn, deleteSaw,
                   files, dirs, playlists, jobs, queue, workers, last, helper, now, auth>>

\* tasks.py delete_hls_outputs, lines 67-70, run by a worker while a view is
\* between exists() and open(): shutil.rmtree takes a rendition folder with
\* everything in it
OutputsRemoved(folder) ==
    /\ http.pc = "open"
    /\ folder \in dirs
    /\ dirs' = dirs \ {folder}
    /\ files' = {f \in files : path_parent(f) # folder}
    /\ playlists' = playlists \ {folder}
    /\ UNCHANGED <<db, tx, txlog, txhooks, nextpk, createdIn, deletedIn, deleteSaw,
                   jobs, queue, workers, last, http, helper, now, auth>>

\* what may be on disk for the one video: its source, and in its 480p folder
\* the playlist and two segments
ViewSource == upload_video_path(1)
ViewFolder == hls_output_dir(ViewSource, "480p")
ViewFiles ==
    { ViewSource,
      hls_playlist_path(ViewSource, "480p"),
      path_div(ViewFolder, Seg000),
      path_div(ViewFolder, Seg000 \o <<"\n">>) }

ViewInit ==
    /\ tx = [open |-> FALSE, id |-> 0, view |-> [v \in Videos |-> NoRow],
             run_on_commit |-> << >>]
    /\ txlog = [i \in 1..MaxTx |-> "unused"]
    /\ txhooks = [i \in 1..MaxTx |-> 0]
    /\ nextpk = NumVideos + 1
    /\ createdIn = [v \in Videos |-> [tx |-> 0, file |-> FALSE]]
    /\ deletedIn = [v \in Videos |-> 0]
    /\ deleteSaw = [v \in Videos |-> NotSeen]
    /\ \E row \in {NoRow,
                   [exists |-> TRUE, video_file |-> TRUE, thumbnail_url |-> FALSE],
                   [exists |-> TRUE, video_file |-> FALSE, thumbnail_url |-> FALSE]} :
        db = [v \in Videos |-> IF v = 1 THEN row ELSE NoRow]
    /\ files \in SUBSET ViewFiles
    /\ dirs = UNION {path_ancestors(path_parent(f)) : f \in files}
    /\ playlists = {d \in dirs : \E i \in 1..NumResolutions :
                        /\ d = hls_output_dir(ViewSource, ALLOWED_RESOLUTIONS_keys[i])
                        /\ hls_playlist_path(ViewSource, ALLOWED_RESOLUTIONS_keys[i])
                                \in files}
    /\ jobs = << >>
    /\ queue = << >>
    /\ workers = [w \in 1..NumPipelineWorkers |-> IdleWorker]
    /\ last = NoLast
    /\ http = NoRequest
    /\ helper = NoCall
    /\ now = 0
    /\ auth = NoAuth

NextViews ==
    \/ \E m \in MovieIds, r \in RequestedResolutions : HLSPlaylistView_get(m, r)
    \/ \E m \in MovieIds, r \in RequestedResolutions, g \in RequestedSegments :
            HLSSegmentView_get(m, r, g)
    \/ OpenFile
    \/ \E folder \in OutputDirs(ViewSource) : OutputsRemoved(folder)

SpecViews == ViewInit /\ [][NextViews]_vars

\* ------------------------------------------------ the helpers on their own
\* bounds: digits in a segment name, directories above a source file
MaxDigits == 4
MaxDepth == 2

\* segment names: something in front, a head, MaxDigits or fewer characters
\* where the digits go, an extension, something behind
SegmentChars == Digits \cup {"a"}
SegmentNames ==
    { pre \o head \o num \o ext \o post :
        pre \in {<< >>, <<"..", "/">>, <<"\n">>},
        head \in {<<"segment_">>, <<"SEGMENT_">>, <<"segment">>},
        num \in UNION {[1..n -> SegmentChars] : n \in 2..MaxDigits},
        ext \in {<<".", "ts">>, <<".", "mp4">>, <<"x", "ts">>},
        post \in {<< >>, <<"\n">>, <<"x">>, <<"\n", "\n">>, <<"/", "x">>} }

\* resolution labels: the allowed ones, case variants, near misses
ResolutionLabels ==
    {"480p", "720p", "1080p", "480P", "720P", "1080P", "999p", "480", "p480",
     "", " 480p", "480p ", "480p\n"}

\* source paths: relative or absolute, up to MaxDepth directories (plain or
\* with a dot in the name), a file name with or without an extension
DirNames == {<<"a">>, <<"v1", ".", "0">>, <<"media">>}
FileStems ==
    {<<"movie">>, <<"my", "_", "clip">>, <<".", "hidden">>, <<"movie", ".", "tar">>}
FileExts == {<<".", "mp4">>, <<".", "MKV">>, <<".", "gz">>}
PlainStems == {<<"movie">>, <<"my", "_", "clip">>, <<".", "hidden">>}
SourceFiles ==
    { [root |-> root, dirs |-> ds, stem |-> stem, ext |-> ext] :
        root \in {EmptyPath, <<"/">>},
        ds \in UNION {[1..n -> DirNames] : n \in 0..MaxDepth},
        stem \in FileStems, ext \in FileExts }
    \cup
    { [root |-> root, dirs |-> ds, stem |-> stem, ext |-> EmptyPath] :
        root \in {EmptyPath, <<"/">>},
        ds \in UNION {[1..n -> DirNames] : n \in 0..MaxDepth},
        stem \in PlainStems }

\* the path string of a source file
SourcePath(f) == f.root \o path_join(f.dirs \o <<f.stem \o f.ext>>)

HelperCalls ==
    {[fn |-> "validate_segment_name", arg |-> n, label |-> "", returned |-> FALSE,
     result |-> "none"] :
        n \in SegmentNames}
    \cup
    {[fn |-> "validate_resolution", arg |-> r, label |-> "", returned |-> FALSE,
     result |-> "none"] :
        r \in ResolutionLabels}
    \cup
    {[fn |-> "hls_paths", arg |-> f, label |-> r, returned |-> FALSE,
     result |-> "none"] :
        f \in SourceFiles, r \in {"480p", "720p", "1080p", "999p"}}

HelperInit ==
    /\ WebInit
    /\ files = {}
    /\ dirs = {}
    /\ playlists = {}
    /\ jobs = << >>
    /\ queue = << >>
    /\ workers = [w \in 1..NumPipelineWorkers |-> IdleWorker]
    /\ last = NoLast
    /\ http = NoRequest
    /\ helper \in HelperCalls
    /\ now = 0
    /\ auth = NoAuth

Returned(value) ==
    /\ helper' = [helper EXCEPT !.returned = TRUE, !.result = value]
    /\ UNCHANGED <<db, tx, txlog, txhooks, nextpk, createdIn, deletedIn, deleteSaw,
                   files, dirs, playlists, jobs, queue, workers, last, http, now, auth>>

\* utils.py validate_segment_name called: it returns None or raises ValueError
CallValidateSegmentName ==
    /\ helper.fn = "validate_segment_name" /\ ~helper.returned
    /\ Returned(IF validate_segment_name(helper.arg) THEN "ok" ELSE "ValueError")

\* utils.py validate_resolution called: it returns None or raises ValueError
CallValidateResolution ==
    /\ helper.fn = "validate_resolution" /\ ~helper.returned
    /\ Returned(IF validate_resolution(helper.arg) THEN "ok" ELSE "ValueError")

\* utils.py hls_output_dir and hls_playlist_path called on a source path
CallHlsPaths ==
    /\ helper.fn = "hls_paths" /\ ~helper.returned
    /\ Returned([output_dir |-> hls_output_dir(SourcePath(helper.arg), helper.label),
                 playlist |-> hls_playlist_path(SourcePath(helper.arg), helper.label)])

NextHelpers ==
    \/ CallValidateSegmentName
    \/ CallValidateResolution
    \/ CallHlsPaths

SpecHelpers == HelperInit /\ [][NextHelpers]_vars

\* =================================================================== claims
\* ------------------------------------------------------------ user_auth_app
\* bound: refresh tokens issued by logins
MaxTokens == 2

\* settings.py:236  AUTH_COOKIE_PREFIX = os.environ.get("AUTH_COOKIE_PREFIX", "")
Prefixes == {"", "vf_"}
\* email addresses as clients type them; two differ in the case of the domain
Emails == {"a@x.de", "a@X.de"}

\* django BaseUserManager.normalize_email, called by create_user: the domain
\* part in lower case
normalize_email(email) == IF email = "a@X.de" THEN "a@x.de" ELSE email

\* User.objects.filter(email=email): the users stored with exactly that
\* email, by user name
users_filter_email(email) ==
    {u \in Emails : auth.users[u].exists /\ auth.users[u].email = email}
Passwords == {"pw1", "pw2"}

\* a token value as a client sends it: 0 no cookie, -1 not a token, k > 0
\* the k-th refresh token issued; the access token issued with or from it
NoToken == 0
NotAToken == -1
TokenValues == NotAToken..MaxTokens
AccessOf(t) == MaxTokens + t

\* a cookie name f"{prefix}{kind}_token", kept as <<prefix, kind>>
\* utils.py cookie_name
cookie_name(kind) ==
    IF kind = "access" THEN <<auth.prefix, "access">> ELSE <<auth.prefix, "refresh">>

\* the name permissions.py:60 reads: the literal "refresh_token"
PlainRefreshCookie == <<"", "refresh">>

CookieNames == {<<p, "refresh">> : p \in Prefixes}
CookieJars == [CookieNames -> TokenValues]

\* request.COOKIES.get(name)
cookies_get(cookies, name) == IF name \in DOMAIN cookies THEN cookies[name] ELSE NoToken

NoUser == [exists |-> FALSE, email |-> "", password |-> "", is_active |-> FALSE]
NoCookies == [n \in CookieNames |-> NoToken]
NoResponse ==
    [op |-> "none", status |-> 0, set |-> {}, deleted |-> {},
     email |-> "", password |-> "", cookies |-> NoCookies]

\* rest_framework_simplejwt RefreshToken(token): the token verifies when it
\* was issued, has not expired and is not on the blacklist; else TokenError
RefreshToken_verifies(token) ==
    /\ token \in 1..Len(auth.tokens)
    /\ ~auth.tokens[token].expired
    /\ token \notin auth.blacklist

\* the response of an auth view becomes the last response; nothing else moves
Reply(a, op, email, password, cookies, status, set, deleted) ==
    auth' = [a EXCEPT !.resp =
                [op |-> op, status |-> status, set |-> set, deleted |-> deleted,
                 email |-> email, password |-> password, cookies |-> cookies]]

\* utils.py set_access_cookie / set_refresh_cookie / set_auth_cookies
set_access_cookie(access) == {<<cookie_name("access"), access>>}
set_refresh_cookie(refresh) == {<<cookie_name("refresh"), refresh>>}
set_auth_cookies(access, refresh) == set_access_cookie(access) \cup set_refresh_cookie(refresh)

\* utils.py delete_auth_cookies
delete_auth_cookies == {cookie_name("access"), cookie_name("refresh")}

\* views.py RegisterView.post: RegisterSerializer.validate (passwords match,
\* no user stored with that email, password strong enough: ok says whether
\* the passwords pass), then create_user(username=email, email=email,
\* is_active=False), which stores the normalised email and fails with an
\* IntegrityError on a user name that is taken, and the activation mail
\* enqueued on commit
RegisterView_post(email, password, ok) ==
    /\ IF ~ok \/ users_filter_email(email) # {}
       THEN /\ Reply(auth, "register", email, password, NoCookies, 400, {}, {})
            /\ UNCHANGED <<jobs, queue>>
       ELSE IF auth.users[email].exists
       THEN /\ Reply(auth, "register", email, password, NoCookies, 500, {}, {})
            /\ UNCHANGED <<jobs, queue>>
       ELSE /\ Reply([auth EXCEPT !.users[email] =
                        [exists |-> TRUE, email |-> normalize_email(email),
                         password |-> password, is_active |-> FALSE]],
                     "register", email, password, NoCookies, 201, {}, {})
            /\ Submit(<<[task |-> "send_activation_email",
                         arg |-> <<normalize_email(email)>>, tx |-> 0]>>)
    /\ last' = NoLast
    /\ UNCHANGED <<db, tx, txlog, txhooks, nextpk, createdIn, deletedIn, deleteSaw,
                   files, dirs, playlists, workers, http, helper, now>>

\* views.py ActivateView.get: the uid names a user (here by user name), the
\* token checks for that user, the user is not active yet
ActivateView_get(username, token_checks) ==
    /\ IF ~auth.users[username].exists \/ ~token_checks \/ auth.users[username].is_active
       THEN Reply(auth, "activate", username, "", NoCookies, 400, {}, {})
       ELSE Reply([auth EXCEPT !.users[username].is_active = TRUE],
                  "activate", username, "", NoCookies, 200, {}, {})
    /\ last' = NoLast
    /\ UNCHANGED <<db, tx, txlog, txhooks, nextpk, createdIn, deletedIn, deleteSaw,
                   files, dirs, playlists, jobs, queue, workers, http, helper, now>>

\* User.objects.get(email=email) as LoginSerializer._get_user calls it: the
\* one user, or the exception raised.  Only DoesNotExist is caught there.
get_user(email) ==
    LET found == users_filter_email(email)
    IN  IF found = {} THEN [raised |-> "DoesNotExist"]
        ELSE IF Cardinality(found) > 1 THEN [raised |-> "MultipleObjectsReturned"]
        ELSE [raised |-> "", username |-> CHOOSE u \in found : TRUE]

\* serializers.py LoginSerializer.validate: the EmailField, _get_user,
\* _check_password, _check_active, then TokenObtainPairSerializer.validate,
\* which authenticates the user name and raises AuthenticationFailed for a
\* wrong password or an inactive user.  The user, or the exception raised.
LoginSerializer_validate(email, password) ==
    LET got == get_user(email)
    IN  IF email \notin Emails \cup {"c@x.de"} THEN [raised |-> "ValidationError"]
        ELSE IF got.raised = "DoesNotExist" THEN [raised |-> "ValidationError"]
        ELSE IF got.raised # "" THEN got
        ELSE IF auth.users[got.username].password # password
             THEN [raised |-> "ValidationError"]
        ELSE IF ~auth.users[got.username].is_active
             THEN [raised |-> "ValidationError"]
        ELSE IF \/ auth.users[got.username].password # password
                \/ ~auth.users[got.username].is_active
             THEN [raised |-> "AuthenticationFailed"]
        ELSE got

\* views.py LoginView.post: a ValidationError is answered 400; any other
\* exception leaves the view (AuthenticationFailed is a 401, the rest a 500)
LoginView_post(email, password) ==
    /\ LET v == LoginSerializer_validate(email, password)
           refresh == Len(auth.tokens) + 1
       IN  IF v.raised = "ValidationError"
           THEN Reply(auth, "login", email, password, NoCookies, 400, {}, {})
           ELSE IF v.raised = "AuthenticationFailed"
           THEN Reply(auth, "login", email, password, NoCookies, 401, {}, {})
           ELSE IF v.raised # ""
           THEN Reply(auth, "login", email, password, NoCookies, 500, {}, {})
           ELSE /\ refresh <= MaxTokens
                /\ Reply([auth EXCEPT !.tokens =
                             Append(@, [user |-> v.username, expired |-> FALSE])],
                         "login", email, password, NoCookies, 200,
                         set_auth_cookies(AccessOf(refresh), refresh), {})
    /\ last' = NoLast
    /\ UNCHANGED <<db, tx, txlog, txhooks, nextpk, createdIn, deletedIn, deleteSaw,
                   files, dirs, playlists, jobs, queue, workers, http, helper, now>>

\* mutant: the logout deletes the cookies and blacklists nothing
blacklist_nothing(token) == auth

\* rest_framework_simplejwt RefreshToken(token).blacklist()
blacklist(token) == [auth EXCEPT !.blacklist = @ \cup {token}]

\* views.py LogoutView.post
LogoutView_post(cookies) ==
    /\ LET refresh_token == cookies_get(cookies, cookie_name("refresh"))
       IN  IF refresh_token = NoToken
           THEN Reply(auth, "logout", "", "", cookies, 400, {}, {})
           ELSE IF ~RefreshToken_verifies(refresh_token)
           THEN Reply(auth, "logout", "", "", cookies, 400, {}, {})
           ELSE Reply(blacklist(refresh_token), "logout", "", "", cookies, 200, {},
                      delete_auth_cookies)
    /\ last' = NoLast
    /\ UNCHANGED <<db, tx, txlog, txhooks, nextpk, createdIn, deletedIn, deleteSaw,
                   files, dirs, playlists, jobs, queue, workers, http, helper, now>>

\* permissions.py AuthenticatedViaRefreshToken.has_permission
AuthenticatedViaRefreshToken_has_permission(cookies) ==
    LET token == cookies_get(cookies, PlainRefreshCookie)
    IN  token # NoToken /\ RefreshToken_verifies(token)

\* views.py CustomTokenRefreshView.post, behind its permission (the view has
\* no authentication classes, so a refused permission is a 403)
CustomTokenRefreshView_post(cookies) ==
    /\ LET refresh_token == cookies_get(cookies, cookie_name("refresh"))
       IN  IF ~AuthenticatedViaRefreshToken_has_permission(cookies)
           THEN Reply(auth, "refresh", "", "", cookies, 403, {}, {})
           ELSE IF refresh_token = NoToken
           THEN Reply(auth, "refresh", "", "", cookies, 400, {}, {})
           ELSE IF ~RefreshToken_verifies(refresh_token)
           THEN Reply(auth, "refresh", "", "", cookies, 401, {}, {})
           ELSE Reply(auth, "refresh", "", "", cookies, 200,
                      set_access_cookie(AccessOf(refresh_token)), {})
    /\ last' = NoLast
    /\ UNCHANGED <<db, tx, txlog, txhooks, nextpk, createdIn, deletedIn, deleteSaw,
                   files, dirs, playlists, jobs, queue, workers, http, helper, now>>

\* settings.py SIMPLE_JWT REFRESH_TOKEN_LIFETIME: a day after its issue a
\* refresh token has expired
TokenExpires(token) ==
    /\ token \in 1..Len(auth.tokens)
    /\ ~auth.tokens[token].expired
    /\ auth' = [auth EXCEPT !.tokens[token].expired = TRUE]
    /\ last' = NoLast
    /\ UNCHANGED <<db, tx, txlog, txhooks, nextpk, createdIn, deletedIn, deleteSaw,
                   files, dirs, playlists, jobs, queue, workers, http, helper, now>>

\* no user yet, no token issued, the prefix as configured
AuthInit ==
    /\ WebInit
    /\ files = {}
    /\ dirs = {}
    /\ playlists = {}
    /\ jobs = << >>
    /\ queue = << >>
    /\ workers = [w \in 1..NumPipelineWorkers |-> IdleWorker]
    /\ last = NoLast
    /\ http = NoRequest
    /\ helper = NoCall
    /\ now = 0
    /\ \E p \in Prefixes :
        auth = [prefix |-> p, users |-> [e \in Emails |-> NoUser],
                tokens |-> << >>, blacklist |-> {}, resp |-> NoResponse]

NextAuth ==
    \/ \E e \in Emails, pw \in Passwords, ok \in BOOLEAN : RegisterView_post(e, pw, ok)
    \/ \E e \in Emails, ok \in BOOLEAN : ActivateView_get(e, ok)
    \/ \E e \in Emails \cup {"c@x.de", "not-an-email"}, pw \in Passwords :
            LoginView_post(e, pw)
    \/ \E c \in CookieJars : LogoutView_post(c)
    \/ \E c \in CookieJars : CustomTokenRefreshView_post(c)
    \/ \E t \in 1..MaxTokens : TokenExpires(t)

SpecAuth == AuthInit /\ [][NextAuth]_vars

\* the jobs submitted so far that call task on arg
JobsFor(task, arg) == {j \in DOMAIN jobs : jobs[j].task = task /\ jobs[j].arg = arg}

\* the creating / deleting transaction of video v has committed
CreationCommitted(v) == createdIn[v].tx # 0 /\ txlog[createdIn[v].tx] = "committed"
DeletionCommitted(v) == deletedIn[v] # 0 /\ txlog[deletedIn[v]] = "committed"

\* the executions under way and the one that just ended, each with its job
Executions ==
    {[job |-> workers[w].job, exec |-> workers[w].exec] :
        w \in {x \in Workers : workers[x].pc # "idle"}}
    \cup (IF last.job # 0 THEN {last} ELSE {})
ExecutionsOf(task) == {x \in Executions : jobs[x.job].task = task}

\* C1: a job is on the queue, and so can be taken by a worker, only when the
\* transaction that called enqueue_after_commit for it has committed; an open
\* or rolled-back transaction has no job.  So a transcode job of a video
\* exists only once the creating transaction committed, and a cleanup job only
\* once the deleting transaction committed.
C1_SubmittedOnlyAfterCommit ==
    /\ \A j \in DOMAIN jobs : jobs[j].tx # 0 /\ txlog[jobs[j].tx] = "committed"
    /\ \A v \in Videos :
        /\ JobsFor("convert_video_to_hls", upload_video_path(v)) # {}
              => CreationCommitted(v)
        /\ \/ JobsFor("delete_hls_outputs", upload_video_path(v)) # {}
           \/ JobsFor("safe_remove", upload_video_path(v)) # {}
           \/ JobsFor("safe_remove", upload_thumbnail_path(v)) # {}
              => DeletionCommitted(v)

\* C1 witness: a worker runs a job of a committed transaction while another
\* transaction that had registered hooks was rolled back
C1_Witness ==
    /\ \E w \in Workers : workers[w].pc # "idle" /\ jobs[workers[w].job].tx # 0
    /\ \E id \in 1..MaxTx : txlog[id] = "rolledback" /\ txhooks[id] > 0

\* C2: once the transaction that created a video with a video file has
\* committed, exactly one convert_video_to_hls job has been submitted for it,
\* with the file's path and the retry policy DEFAULT_RETRY
C2_ExactlyOneTranscodeJob ==
    \A v \in Videos :
        CreationCommitted(v) /\ createdIn[v].file =>
            /\ Cardinality(JobsFor("convert_video_to_hls", upload_video_path(v))) = 1
            /\ \A j \in JobsFor("convert_video_to_hls", upload_video_path(v)) :
                /\ jobs[j].retry_intervals = DEFAULT_RETRY.interval
                /\ jobs[j].retries_left <= DEFAULT_RETRY.max
                /\ jobs[j].runs = 0 => jobs[j].retries_left = DEFAULT_RETRY.max

\* C2 witness: a video created with a file, its transaction and a later one
\* committed, the row still carrying the file, and its one job queued
C2_Witness ==
    \E v \in Videos :
        /\ CreationCommitted(v) /\ createdIn[v].file
        /\ db[v].exists /\ db[v].video_file
        /\ \E id \in 1..MaxTx : id # createdIn[v].tx /\ txlog[id] = "committed"
        /\ \E j \in JobsFor("convert_video_to_hls", upload_video_path(v)) :
              jobs[j].status = "queued"

Ended(task) == last.job # 0 /\ jobs[last.job].task = task

\* the renditions an execution has produced: the encoder exited 0 for them
Produced(e) ==
    {e.invoked[i].label : i \in {k \in 1..Len(e.invoked) : e.invoked[k].rc = 0}}
AllRenditions == {ALLOWED_RESOLUTIONS_keys[i] : i \in 1..NumResolutions}

\* C4 as stated: an execution of convert_video_to_hls on an existing source
\* that returned or failed on the encoder has invoked the encoder once for each
\* rendition, in order, each time with the output directory in place
C4_OncePerRendition ==
    Ended("convert_video_to_hls") /\ last.exec.src
    /\ last.exec.result \in {"ok", "encfail"} =>
        /\ Len(last.exec.invoked) = NumResolutions
        /\ \A i \in 1..Len(last.exec.invoked) :
            /\ last.exec.invoked[i].label = ALLOWED_RESOLUTIONS_keys[i]
            /\ last.exec.invoked[i].dir

\* C4 amended: convert_video_to_hls on an existing source invokes the encoder
\* at most once per rendition, in the order 480p, 720p, 1080p, and stops after
\* the first invocation that fails; it invokes it once for every rendition
\* when it returns normally.  Before each invocation it has created that
\* rendition's output directory, which is then in place unless a concurrent
\* delete_hls_outputs removed it in between.
C4_InOrderUntilFailure ==
    \A x \in ExecutionsOf("convert_video_to_hls") :
        LET inv == x.exec.invoked
        IN  /\ Len(inv) <= NumResolutions
            /\ \A i \in 1..Len(inv) :
                /\ inv[i].label = ALLOWED_RESOLUTIONS_keys[i]
                /\ i < Len(inv) => inv[i].rc = 0
                /\ inv[i].made
                /\ inv[i].dir \/ inv[i].wiped
            /\ x.exec.result = "ok" =>
                /\ Len(inv) = NumResolutions
                /\ \A i \in 1..Len(inv) : inv[i].rc = 0

\* C4 witness: an execution returned after three invocations, having created
\* the three output directories itself
C4_Witness ==
    /\ Ended("convert_video_to_hls")
    /\ last.exec.result = "ok"
    /\ Len(last.exec.invoked) = NumResolutions
    /\ \A d \in OutputDirs(jobs[last.job].arg) : <<"mkdir", d>> \in last.exec.effects

\* C5: no encoder invocation follows one that exited non-zero in the same
\* execution; the execution ends there as a failed attempt, which rq schedules
\* for a retry after the configured interval while retries are left and marks
\* failed otherwise
C5_EncoderFailureAborts ==
    /\ \A x \in ExecutionsOf("convert_video_to_hls") :
        \A i \in 1..Len(x.exec.invoked) :
            i < Len(x.exec.invoked) => x.exec.invoked[i].rc = 0
    /\ Ended("convert_video_to_hls") /\ last.exec.result = "encfail" =>
        LET job == jobs[last.job]
        IN  /\ last.exec.invoked[Len(last.exec.invoked)].rc # 0
            /\ \A w \in Workers : workers[w].pc # "idle" => workers[w].job # last.job
            /\ job.status \in {"scheduled", "failed"}
            /\ job.status = "scheduled" <=> job.runs <= DEFAULT_RETRY.max
            /\ job.status = "scheduled" =>
                    job.interval = DEFAULT_RETRY.interval[job.runs]

\* C5 witness: the encoder failed on the first rendition of a first run; the
\* job is scheduled for its retry and the other renditions were not tried
C5_Witness ==
    /\ Ended("convert_video_to_hls")
    /\ last.exec.result = "encfail"
    /\ Len(last.exec.invoked) = 1
    /\ jobs[last.job].status = "scheduled"
    /\ jobs[last.job].runs = 1

\* C6 as stated: a failed rendition does not keep the other renditions of the
\* execution from being attempted
C6_RenditionsIndependent ==
    Ended("convert_video_to_hls") /\ last.exec.result \in {"ok", "encfail"} =>
        {last.exec.invoked[i].label : i \in 1..Len(last.exec.invoked)} = AllRenditions

\* C6 amended: within one execution a rendition is produced only if every
\* rendition before it in the order was produced; a failed rendition leaves
\* the earlier ones produced and keeps itself and all later ones from being
\* produced in that execution
C6_LaterDependsOnEarlier ==
    \A x \in ExecutionsOf("convert_video_to_hls") :
        /\ \A i \in 1..NumResolutions :
            ALLOWED_RESOLUTIONS_keys[i] \in Produced(x.exec) =>
                \A k \in 1..i : ALLOWED_RESOLUTIONS_keys[k] \in Produced(x.exec)
        /\ x.exec.result = "ok" => Produced(x.exec) = AllRenditions
        /\ x.exec.result = "encfail" =>
                Produced(x.exec) =
                    {ALLOWED_RESOLUTIONS_keys[i] : i \in 1..(Len(x.exec.invoked) - 1)}

\* C6 witness: 480p was produced, 720p failed, 1080p was never attempted
C6_Witness ==
    /\ Ended("convert_video_to_hls")
    /\ last.exec.result = "encfail"
    /\ Len(last.exec.invoked) = 2
    /\ Produced(last.exec) = {ALLOWED_RESOLUTIONS_keys[1]}

\* C7: an execution of convert_video_to_hls whose path is empty or not on
\* disk when it is called ends at once: no encoder invocation, no directory
\* made, no change to the filesystem, and the job is finished, not retried
C7_MissingSourceIsNoop ==
    \A x \in ExecutionsOf("convert_video_to_hls") :
        ~x.exec.src =>
            /\ x = last
            /\ x.exec.result = "noop"
            /\ x.exec.invoked = << >>
            /\ x.exec.made = {}
            /\ x.exec.effects = {}
            /\ jobs[x.job].status = "finished"
            /\ \A i \in 1..Len(queue) : queue[i] # x.job

\* C7 witness: the task was called for a source path that is not on disk
C7_Witness ==
    /\ Ended("convert_video_to_hls")
    /\ last.exec.result = "noop"
    /\ jobs[last.job].arg = TaskPath
    /\ TaskPath \notin files

\* C8 as stated: every committed deletion of a video with a video file attached
\* has submitted exactly one delete_hls_outputs job and one safe_remove job
\* for the file's path
C8_EveryDeletionCleansUp ==
    \A v \in Videos :
        DeletionCommitted(v) /\ deleteSaw[v].attached =>
            /\ Cardinality(JobsFor("delete_hls_outputs", upload_video_path(v))) = 1
            /\ Cardinality(JobsFor("safe_remove", upload_video_path(v))) = 1

\* C8 amended: a committed deletion of a video with a video file attached has
\* submitted exactly one delete_hls_outputs job and one safe_remove job for the
\* file's path when the file was on disk at the deletion, and none otherwise
C8_DeletionCleansUpFileOnDisk ==
    \A v \in Videos :
        DeletionCommitted(v) /\ deleteSaw[v].attached =>
            LET n == IF deleteSaw[v].video THEN 1 ELSE 0
            IN  /\ Cardinality(JobsFor("delete_hls_outputs", upload_video_path(v))) = n
                /\ Cardinality(JobsFor("safe_remove", upload_video_path(v))) = n

\* C8 witness: a video whose file was on disk was deleted and the deletion
\* committed; its two jobs are there
C8_Witness ==
    \E v \in Videos :
        /\ DeletionCommitted(v) /\ deleteSaw[v].video
        /\ JobsFor("delete_hls_outputs", upload_video_path(v)) # {}
        /\ JobsFor("safe_remove", upload_video_path(v)) # {}

\* C9: the cleanup jobs submitted for a video are exactly: one
\* delete_hls_outputs(path) and one safe_remove(path) when its deletion has
\* committed and found the video file on disk, one safe_remove(thumbnail) when
\* its deletion has committed and found the thumbnail on disk, whatever became
\* of the video file; none while the deletion is uncommitted or rolled back
C9_CleanupJobsAfterCommit ==
    \A v \in Videos :
        LET nv == IF DeletionCommitted(v) /\ deleteSaw[v].video THEN 1 ELSE 0
            nt == IF DeletionCommitted(v) /\ deleteSaw[v].thumb THEN 1 ELSE 0
        IN  /\ Cardinality(JobsFor("delete_hls_outputs", upload_video_path(v))) = nv
            /\ Cardinality(JobsFor("safe_remove", upload_video_path(v))) = nv
            /\ Cardinality(JobsFor("safe_remove", upload_thumbnail_path(v))) = nt
            /\ JobsFor("delete_hls_outputs", upload_thumbnail_path(v)) = {}

\* C9 witness: the deletion found the thumbnail but not the video file, and
\* the thumbnail's safe_remove job is there
C9_Witness ==
    \E v \in Videos :
        /\ DeletionCommitted(v)
        /\ deleteSaw[v].thumb /\ deleteSaw[v].attached /\ ~deleteSaw[v].video
        /\ JobsFor("safe_remove", upload_thumbnail_path(v)) # {}

\* C10: delete_hls_outputs returns normally; when no rmtree of it hit an error
\* and no convert_video_to_hls ran on the same directories meanwhile, none of
\* the rendition directories of its path exists when it returns; when the path
\* is empty, or none of them existed when it was called, it changes nothing
C10_DeleteRemovesAllOutputs ==
    Ended("delete_hls_outputs") =>
        LET job == jobs[last.job]
            e == last.exec
        IN  /\ e.result = "ok"
            /\ job.status = "finished"
            /\ job.arg # EmptyPath /\ ~e.rmerr /\ ~e.overlap =>
                    OutputDirs(job.arg) \cap dirs = {}
            /\ job.arg = EmptyPath \/ (e.dirsBefore = {} /\ ~e.overlap) =>
                    e.effects = {}

\* C10 witness: all three rendition directories were there and the call
\* removed each of them
C10_Witness ==
    /\ Ended("delete_hls_outputs")
    /\ last.exec.dirsBefore = OutputDirs(jobs[last.job].arg)
    /\ ~last.exec.rmerr /\ ~last.exec.overlap
    /\ last.exec.effects = {<<"rmtree", d>> : d \in OutputDirs(jobs[last.job].arg)}

Answered(kind) == http.pc = "done" /\ http.view = kind

\* C12 as stated: a playlist request is answered 200 with the playlist and
\* content type application/vnd.apple.mpegurl when the video exists, the
\* resolution is allowed and the playlist is on disk, and 404 in every other
\* case, a video without file included; never anything else
C12_PlaylistOkOrNotFound ==
    Answered("playlist") =>
        LET video == get_video(http.movie_id)
            playlist == hls_playlist_path(upload_video_path(http.movie_id),
                                          http.resolution)
            present == /\ video.exists /\ video.video_file
                       /\ validate_resolution(http.resolution)
                       /\ playlist \in files
        IN  /\ http.response.status \in {200, 404}
            /\ present => http.response =
                    [status |-> 200, body |-> playlist,
                     content_type |-> "application/vnd.apple.mpegurl"]
            /\ ~present => http.response.status = 404

\* C13 as stated: a segment request is answered 200 with the file and content
\* type video/MP2T exactly when the video exists, the resolution and the
\* segment name are valid and the file is directly inside the rendition's
\* output directory; otherwise 404; a served file is inside that directory
C13_SegmentOkOrNotFound ==
    Answered("segment") =>
        LET video == get_video(http.movie_id)
            out_dir == hls_output_dir(upload_video_path(http.movie_id), http.resolution)
            seg == path_div(out_dir, http.segment)
            present == /\ video.exists /\ video.video_file
                       /\ validate_resolution(http.resolution)
                       /\ validate_segment_name(http.segment)
                       /\ seg \in files /\ path_parent(seg) = out_dir
        IN  /\ present <=> http.response.status = 200
            /\ present => http.response =
                    [status |-> 200, body |-> seg, content_type |-> "video/MP2T"]
            /\ ~present => http.response.status = 404
            /\ http.response.status = 200 => path_parent(http.response.body) = out_dir

\* C14 as stated: the answer to a request with an invalid resolution or an
\* invalid segment name equals, status and body, the answer the same view gives
\* for the same video when the invalid part is replaced by a valid one that
\* names a resource which is not there
C14_InvalidLooksAbsent ==
    /\ (Answered("playlist") /\ ~validate_resolution(http.resolution)) =>
        \A r \in RequestedResolutions :
            LET alt == playlist_lookup(http.movie_id, r)
            IN  (validate_resolution(r) /\ ~alt.found /\ alt.response.status = 404)
                    => alt.response = http.response
    /\ (/\ Answered("segment")
        /\ (~validate_resolution(http.resolution)
                \/ ~validate_segment_name(http.segment))) =>
        \A r \in RequestedResolutions, g \in RequestedSegments :
            LET alt == segment_lookup(http.movie_id, r, g)
            IN  (/\ validate_resolution(r) /\ validate_segment_name(g)
                 /\ (r = http.resolution \/ ~validate_resolution(http.resolution))
                 /\ (g = http.segment \/ ~validate_segment_name(http.segment))
                 /\ ~alt.found /\ alt.response.status = 404)
                    => alt.response = http.response

\* a helper was called and has returned or raised
Called(fn) == helper.fn = fn /\ helper.returned

\* C15 as stated: validate_segment_name returns exactly for the names made of
\* segment_, three decimal digits and .ts with nothing before or after, and
\* raises for every other string
C15_SegmentNameExact ==
    Called("validate_segment_name") =>
        (helper.result = "ok" <=>
            \E a \in Digits, b \in Digits, c \in Digits :
                helper.arg = <<"segment_", a, b, c, ".", "ts">>)

\* C16: validate_resolution returns exactly for 480p, 720p and 1080p and
\* raises ValueError for every other string
C16_ResolutionExact ==
    Called("validate_resolution") =>
        /\ helper.result \in {"ok", "ValueError"}
        /\ helper.result = "ok" <=> helper.arg \in {"480p", "720p", "1080p"}

\* C16 witness: a case variant of an allowed label was turned away
C16_Witness ==
    /\ Called("validate_resolution")
    /\ helper.arg = "1080P"
    /\ helper.result = "ValueError"

\* C17: for a source file in any directory and with any extension,
\* hls_output_dir is the file's path without its extension followed by _ and
\* the label, a sibling of the source file, and hls_playlist_path is
\* index.m3u8 directly inside it
C17_OutputDirBesideSource ==
    Called("hls_paths") =>
        LET f == helper.arg
            stripped == f.root \o path_join(f.dirs \o <<f.stem>>)
        IN  /\ helper.result.output_dir = stripped \o <<"_", helper.label>>
            /\ path_parent(helper.result.output_dir) = path_parent(SourcePath(f))
            /\ helper.result.playlist =
                    helper.result.output_dir \o <<"/", "index", ".", "m3u8">>
            /\ path_parent(helper.result.playlist) = helper.result.output_dir

\* C17 witness: an absolute source two directories deep, one of them with a
\* dot in its name, and an upper-case extension
C17_Witness ==
    /\ Called("hls_paths")
    /\ helper.arg = [root |-> <<"/">>, dirs |-> <<<<"media">>, <<"v1", ".", "0">>>>,
                     stem |-> <<"movie", ".", "tar">>, ext |-> <<".", "MKV">>]
    /\ helper.label = "720p"
    /\ helper.result.output_dir =
            <<"/", "media", "/", "v1", ".", "0", "/", "movie", ".", "tar", "_", "720p">>

\* the convert_video_to_hls calls for video v waiting in the open transaction
PendingConvert(v) ==
    {i \in 1..Len(tx.run_on_commit) :
        /\ tx.run_on_commit[i].task = "convert_video_to_hls"
        /\ tx.run_on_commit[i].arg = upload_video_path(v)}

\* C18: a video created without a video file never gets a transcode job,
\* neither queued nor waiting for the commit, whatever later saves attach to
\* it; a video created with a file gets one from its creating save and none
\* from any later save
C18_OnlyCreatingSaveEnqueues ==
    \A v \in Videos :
        LET n == Cardinality(JobsFor("convert_video_to_hls", upload_video_path(v)))
                 + Cardinality(PendingConvert(v))
        IN  /\ ~createdIn[v].file => n = 0
            /\ n <= 1
            /\ PendingConvert(v) # {} => tx.open /\ createdIn[v].tx = tx.id

\* C18 witness: a video created without a file had a file attached by a later
\* save, both committed, and there is no transcode job
C18_Witness ==
    \E v \in Videos :
        /\ CreationCommitted(v) /\ ~createdIn[v].file
        /\ ~tx.open
        /\ db[v].exists /\ db[v].video_file
        /\ upload_video_path(v) \in files
        /\ JobsFor("convert_video_to_hls", upload_video_path(v)) = {}

\* C19: between consecutive executions of a failing job the queue waits 10 s
\* before the first re-run, 30 s before the second and 60 s before the
\* third: a job scheduled after its k-th failed execution is due its k-th
\* backoff after the failure and is neither queued nor running meanwhile,
\* and a job that is back on the queue or running again has waited at least
\* that backoff since it failed.
C19_BackoffInOrder ==
    LET backoff == <<10, 30, 60>>
    IN  \A j \in DOMAIN jobs :
            /\ (jobs[j].status = "scheduled") =>
                   /\ jobs[j].runs \in 1..3
                   /\ jobs[j].due = jobs[j].failed_at + backoff[jobs[j].runs]
                   /\ \A i \in 1..Len(queue) : queue[i] # j
                   /\ \A w \in Workers : workers[w].job # j
            /\ (jobs[j].status = "queued" /\ jobs[j].runs >= 1) =>
                   /\ jobs[j].runs \in 1..3
                   /\ jobs[j].waited >= backoff[jobs[j].runs]
            /\ (jobs[j].status = "started" /\ jobs[j].runs >= 2) =>
                   /\ jobs[j].runs \in 2..4
                   /\ jobs[j].waited >= backoff[jobs[j].runs - 1]

\* the third re-run of a job is under way, 60 s or more after its third failure
C19_Witness ==
    \E j \in DOMAIN jobs :
        /\ jobs[j].status = "started"
        /\ jobs[j].runs = 4
        /\ jobs[j].waited >= 60
        /\ now >= 100

\* C20: a job only moves queued -> started, started -> finished, started ->
\* scheduled (failed, to be retried), scheduled -> queued and started ->
\* failed (no retry left); an execution begins only from queued, and a job
\* that is finished or failed never changes again, so a job whose task
\* returned is not executed again.  A task that returns at its first check
\* starts and finishes within one step of the worker: queued -> finished
\* with one more execution counted.
C20_JobLifecycle ==
    [][\A j \in DOMAIN jobs :
          /\ \/ jobs'[j].status = jobs[j].status
             \/ <<jobs[j].status, jobs'[j].status>> \in
                    {<<"queued", "started">>, <<"started", "finished">>,
                     <<"started", "scheduled">>, <<"scheduled", "queued">>,
                     <<"started", "failed">>}
             \/ /\ jobs[j].status = "queued"
                /\ jobs'[j].status = "finished"
                /\ jobs'[j].runs = jobs[j].runs + 1
          /\ (jobs[j].status \in {"finished", "failed"}) => jobs'[j] = jobs[j]
          /\ (jobs'[j].runs # jobs[j].runs) =>
                 /\ jobs[j].status = "queued"
                 /\ jobs'[j].runs = jobs[j].runs + 1
          /\ (jobs[j].status = "queued" /\ jobs'[j].status # "queued") =>
                 jobs'[j].runs = jobs[j].runs + 1]_vars

\* a job has succeeded on a retry and another has used up its retries, and a
\* worker is free to take a job
C20_Witness ==
    /\ \E j \in DOMAIN jobs : jobs[j].status = "finished" /\ jobs[j].runs >= 2
    /\ \E j \in DOMAIN jobs : jobs[j].status = "failed"
    /\ \E w \in Workers : workers[w].pc = "idle"

\* C21: when convert_video_to_hls returns for a source that is on disk, with
\* every encoder invocation of the run having succeeded and no cleanup or
\* removal job around for that path, then whatever earlier runs (complete,
\* failed part-way, timed out, or none) left behind, the rendition
\* directories on disk and the playlists are those of one single successful
\* run: the three output directories of the path, each with its playlist,
\* and the source is still there.
C21_RerunIdempotent ==
    (/\ Ended("convert_video_to_hls")
     /\ last.exec.result = "ok"
     /\ \A k \in DOMAIN jobs :
            jobs[k].task # "convert_video_to_hls" => jobs[k].arg # jobs[last.job].arg)
    => LET path == jobs[last.job].arg
       IN  /\ OutputDirs(path) \subseteq dirs
           /\ playlists = OutputDirs(path)
           /\ {d \in dirs : \E p \in TaskArgs : d \in OutputDirs(p)} = OutputDirs(path)
           /\ path \in files

\* C21 witness: a retry of a run that failed part-way returned, after another
\* transcode job for the same source had run to its end
C21_Witness ==
    /\ Ended("convert_video_to_hls")
    /\ last.exec.result = "ok"
    /\ jobs[last.job].runs >= 2
    /\ \E k \in DOMAIN jobs :
        /\ k # last.job
        /\ jobs[k].task = "convert_video_to_hls"
        /\ jobs[k].arg = jobs[last.job].arg
        /\ jobs[k].status = "finished"
    /\ last.exec.effects = {}

\* C22: while delete_hls_outputs(path) is the only task at work, the source
\* file at path and the thumbnail stay on disk, and everything an execution
\* of it removes is one of the rendition output directories of path or lies
\* inside one; it creates nothing.
C22_DeleteLeavesSourceAndThumbnail ==
    \A x \in ExecutionsOf("delete_hls_outputs") :
        LET path == jobs[x.job].arg
        IN  /\ (\A k \in DOMAIN jobs : jobs[k].task = "delete_hls_outputs") =>
                   /\ path \in files
                   /\ upload_thumbnail_path(1) \in files
            /\ \A ef \in x.exec.effects :
                /\ ef[1] \in {"rmtree", "rmplaylist", "unlink"}
                /\ ef[2] # path
                /\ ef[2] # upload_thumbnail_path(1)
                /\ \E d \in OutputDirs(path) : d \in path_ancestors(ef[2])
            /\ x.exec.tried \subseteq OutputDirs(path)

\* C22 witness: delete_hls_outputs returned after removing the three rendition
\* directories of its path, and the source and the thumbnail are on disk
C22_Witness ==
    /\ Ended("delete_hls_outputs")
    /\ last.exec.result = "ok"
    /\ \A d \in OutputDirs(jobs[last.job].arg) : <<"rmtree", d>> \in last.exec.effects
    /\ jobs[last.job].arg \in files
    /\ upload_thumbnail_path(1) \in files

\* C23: an execution cut off by the queue's timeout ends as a failed attempt
\* exactly like one whose encoder failed: it has used one of the job's four
\* executions and one of its three retries, the job is scheduled for the
\* failure time plus the backoff of that attempt (10, 30, 60 s) while a retry
\* is left and failed after the fourth, and no worker goes on running it.
C23_TimeoutIsFailedAttempt ==
    (Ended("convert_video_to_hls") /\ last.exec.result \in {"timeout", "encfail"}) =>
        LET job == jobs[last.job]
        IN  /\ job.runs \in 1..(DEFAULT_RETRY.max + 1)
            /\ job.retries_left = IF job.runs <= DEFAULT_RETRY.max
                                  THEN DEFAULT_RETRY.max - job.runs ELSE 0
            /\ job.status = (IF job.runs <= DEFAULT_RETRY.max THEN "scheduled" ELSE "failed")
            /\ (job.status = "scheduled") =>
                   /\ job.interval = DEFAULT_RETRY.interval[job.runs]
                   /\ job.failed_at = now
                   /\ job.due = now + DEFAULT_RETRY.interval[job.runs]
            /\ \A w \in Workers : workers[w].job # last.job
            /\ \A i \in 1..Len(queue) : queue[i] # last.job

\* C23 witness: the third execution of a job was cut off by the timeout and
\* the job is scheduled for its last retry, 60 s later
C23_Witness ==
    /\ Ended("convert_video_to_hls")
    /\ last.exec.result = "timeout"
    /\ jobs[last.job].runs = 3
    /\ jobs[last.job].status = "scheduled"
    /\ jobs[last.job].due = now + 60

\* C24: the login endpoint answers 200 and sets the access and the refresh
\* cookie when a user is stored with the given email, the password is that
\* user's and the user is active; in every other case it answers 400 and
\* sets no cookie.  A user is inactive from registration until an activation
\* succeeded, so no token was ever issued to a user who is not active.
C24_LoginOnlyActiveUser ==
    /\ (auth.resp.op = "login") =>
           LET good == \E u \in users_filter_email(auth.resp.email) :
                           /\ auth.users[u].password = auth.resp.password
                           /\ auth.users[u].is_active
           IN  /\ good =>
                   /\ auth.resp.status = 200
                   /\ \E t \in 1..Len(auth.tokens) :
                       /\ auth.tokens[t].user \in users_filter_email(auth.resp.email)
                       /\ auth.resp.set = {<<cookie_name("access"), AccessOf(t)>>,
                                           <<cookie_name("refresh"), t>>}
               /\ ~good => auth.resp.status = 400 /\ auth.resp.set = {}
    /\ \A t \in 1..Len(auth.tokens) : auth.users[auth.tokens[t].user].is_active
    /\ (auth.resp.op = "register" /\ auth.resp.status = 201) =>
           ~auth.users[auth.resp.email].is_active


\* C25: a logout that succeeds puts the refresh token R it was given on the
\* blacklist, and no token ever leaves the blacklist; from then on every
\* token-refresh request that presents R under the configured cookie name is
\* denied (401 or 403) and sets no cookie.  A logout without a refresh cookie,
\* or with one that does not verify, answers 400, deletes no cookie and
\* leaves the users, the tokens and the blacklist as they were.
C25_LogoutInvalidatesRefreshToken ==
    [][LET sent == cookies_get(auth'.resp.cookies, cookie_name("refresh"))
       IN  /\ auth.blacklist \subseteq auth'.blacklist
           /\ (auth'.resp # auth.resp /\ auth'.resp.op = "logout") =>
                /\ auth'.resp.status \in {200, 400}
                /\ (auth'.resp.status = 200) =>
                        sent \in auth'.blacklist /\ sent \notin auth.blacklist
                /\ (sent = NoToken \/ ~RefreshToken_verifies(sent)) =>
                        /\ auth'.resp.status = 400
                        /\ auth'.resp.set = {} /\ auth'.resp.deleted = {}
                        /\ auth'.users = auth.users
                        /\ auth'.tokens = auth.tokens
                        /\ auth'.blacklist = auth.blacklist
           /\ (auth'.resp # auth.resp /\ auth'.resp.op = "refresh"
                    /\ sent \in auth.blacklist) =>
                /\ auth'.resp.status \in {401, 403}
                /\ auth'.resp.set = {}
      ]_vars

\* a token-refresh request presenting a logged-out token passed the
\* permission on another cookie and was denied by the view
C25_Witness ==
    /\ auth.resp.op = "refresh"
    /\ cookies_get(auth.resp.cookies, cookie_name("refresh")) \in auth.blacklist
    /\ auth.resp.status = 401
    /\ auth.resp.set = {}


\* C30: under every configured cookie prefix, a token-refresh request that
\* carries the refresh cookie as the login set it (the token under the
\* configured name, still valid) is answered 200 and sets a new access
\* cookie under the configured name; a request whose configured refresh
\* cookie is missing or does not verify is answered 403 and sets no cookie.
C30_RefreshAcceptsLoginCookie ==
    (auth.resp.op = "refresh") =>
        LET sent == cookies_get(auth.resp.cookies, cookie_name("refresh"))
        IN  IF sent # NoToken /\ RefreshToken_verifies(sent)
            THEN /\ auth.resp.status = 200
                 /\ auth.resp.set = {<<cookie_name("access"), AccessOf(sent)>>}
            ELSE /\ auth.resp.status = 403
                 /\ auth.resp.set = {}


\* C29: for a source path p and every other source path q, no execution of
\* convert_video_to_hls(p) or delete_hls_outputs(p) creates or removes a
\* rendition directory of q or a playlist in one, and no encoder of p is
\* started on a rendition directory of q.
C29_OtherPathsUntouched ==
    \A x \in Executions :
        jobs[x.job].task \in {"convert_video_to_hls", "delete_hls_outputs"} =>
            \A q \in GeneralPaths \ {jobs[x.job].arg} :
                /\ \A eff \in x.exec.effects : eff[2] \notin OutputDirs(q)
                /\ \A i \in 1..Len(x.exec.invoked) :
                        hls_output_dir(jobs[x.job].arg, x.exec.invoked[i].label)
                            \notin OutputDirs(q)


\* C26: when the creation and the deletion of a video with a video file have
\* both committed, and every job enqueued for its path has ended (finished
\* or failed for good) with no worker at work, none of the rendition output
\* directories of that path is on disk.
C26_NoOutputLeftAfterDelete ==
    \A v \in Videos :
        (/\ CreationCommitted(v)
         /\ createdIn[v].file
         /\ DeletionCommitted(v)
         /\ ~tx.open
         /\ \A w \in Workers : workers[w].pc = "idle"
         /\ \A j \in DOMAIN jobs :
                jobs[j].arg = upload_video_path(v) =>
                    jobs[j].status \in {"finished", "failed"})
        => OutputDirs(upload_video_path(v)) \cap dirs = {}


\* C27: at any moment at most one worker is inside convert_video_to_hls for
\* a given source path, and no two workers have an encoder at work on the
\* same rendition output directory; this holds as well while a retry of a
\* failed or timed-out attempt runs.
C27_OneTranscodePerPath ==
    \A w1 \in Workers, w2 \in Workers :
        (/\ w1 # w2
         /\ workers[w1].pc \in {"mkdir", "encode"}
         /\ workers[w2].pc \in {"mkdir", "encode"})
        => /\ jobs[workers[w1].job].arg # jobs[workers[w2].job].arg
           /\ hls_output_dir(jobs[workers[w1].job].arg,
                             ALLOWED_RESOLUTIONS_keys[workers[w1].idx])
                # hls_output_dir(jobs[workers[w2].job].arg,
                                 ALLOWED_RESOLUTIONS_keys[workers[w2].idx])

\* a retry of the transcode has its encoder at work, after an attempt that
\* failed, while the other worker is busy on the same path
C27_Witness ==
    \E w1 \in Workers, w2 \in Workers :
        /\ workers[w1].pc = "encode"
        /\ jobs[workers[w1].job].runs >= 2
        /\ jobs[workers[w1].job].retries_left < DEFAULT_RETRY.max
        /\ workers[w2].pc \in {"rm", "unlink"}
        /\ jobs[workers[w2].job].arg = jobs[workers[w1].job].arg


\* C28: every job on the queue sooner or later is finished or failed for
\* good and stays so, whatever the other jobs did before it: no job is
\* retried for ever, and jobs that fail do not keep later jobs from being
\* run to their end.
C28_EveryJobEnds ==
    \A j \in 1..MaxJobs :
        (j \in DOMAIN jobs)
            ~> [](j \in DOMAIN jobs /\ jobs[j].status \in {"finished", "failed"})

\* the transcode has used up its retries and failed for good, and the two
\* cleanup jobs enqueued after it were run to their end
C28_Witness ==
    /\ Len(jobs) = MaxJobs
    /\ jobs[1].status = "failed"
    /\ jobs[1].retries_left = 0
    /\ jobs[1].runs = DEFAULT_RETRY.max + 1
    /\ \A j \in 2..MaxJobs : jobs[j].status = "finished"

====
